---- MODULE Spec2Model ----
(***************************************************************************)
(* A model of orengine-utils' NumberKeyMap (src/src/number_key_map.rs):    *)
(* the direct-index map keyed by usize, its single-slot insert, its        *)
(* collision-triggered resize, remove, clear and the lazy iterators.       *)
(*                                                                         *)
(* usize is taken as on a 16-bit target (usize::MAX = 65535): TLC's        *)
(* integers are 32 bits wide, and no arithmetic of the map reaches the     *)
(* word's end for the keys and capacities explored here.                   *)
(***************************************************************************)
EXTENDS Integers, Sequences, FiniteSets, TLC

VARIABLES
    inner,      \* NumberKeyMap::inner: NULL or ALLOCATED (the buffer handle)
    capacity,   \* NumberKeyMap::capacity
    slots,      \* the buffer behind inner: [0..capacity-1 -> Slot]
    iter,       \* the one lazy iterator borrowing the map: [kind, ptr]
    panic,      \* "none", or the message of the panic that ended the process
    last,       \* the last call and what it returned: [op, key, value, ret]
    run,        \* history: the pairs inserted so far, while every mutating
                \* call since new() was an insert of a key not inserted before
    rz,         \* SpecResize: the insert in flight, one 'allocate pass at a time
    own,        \* SpecOwn: who holds each value, destructor and dealloc counts
    rd,         \* SpecReaders: the get calls in flight, one per thread
    pool,       \* SpecPool: the threads and the lock of the pool example
    mem,        \* SpecAlloc: the allocator's answers and the writes through them
    vq,         \* SpecVecQueue: a VecQueue and the sequence it stands for
    aq,         \* SpecArrayQueue: an ArrayQueue and the sequence it stands for
    clk,        \* SpecInstant: two OrengineInstant values and their difference
    grow        \* SpecGrowth: a capacity and what greater_capacity makes of it

\* The map, as every specification has it.
mapVars == <<inner, capacity, slots>>

\* What only the other specifications use; Spec leaves it alone.
\* What the specifications of the allocator, the queues, the clock and the
\* growth policy use.
extVars == <<mem, vq, aq, clk, grow>>

auxVars == <<rz, own, rd, pool, extVars>>

vars == <<inner, capacity, slots, iter, panic, last, run, rz, own, rd, pool,
          mem, vq, aq, clk, grow>>

(***************************************************************************)
(* Bounds and inputs.                                                      *)
(***************************************************************************)

\* usize::MAX, the key of a vacant slot.
MAX_KEY == 65535

\* The keys the calls draw from.  0, 4 and 20 share a slot at capacity 4;
\* 0, 10 and 20 share one at capacity 10; none do at capacity 22.
Keys == {0, 1, 4, 10, 20}

\* The values the calls draw from.
Values == {"a", "b"}

\* Insert is not taken when it would grow the map beyond this capacity.
MaxCapacity == 24

(***************************************************************************)
(* Slots, results.                                                         *)
(***************************************************************************)

NULL == "null"

ALLOCATED == "allocated"

\* The value field of a slot whose key is MAX_KEY: never written, or moved
\* out.  No code path reads it, so the model keeps no stale bits there.
NoValue == "-"

VacantSlot == [key |-> MAX_KEY, value |-> NoValue]

Slot(key, value) == [key |-> key, value |-> value]

None == [tag |-> "None", v |-> NoValue]

Some(v) == [tag |-> "Some", v |-> v]

Ok == [tag |-> "Ok", v |-> NoValue]

Err(v) == [tag |-> "Err", v |-> v]

\* What a call handed to the closure it was given: the sequence of the
\* closure's arguments.
Calls(args) == [tag |-> "Calls", v |-> args]

NoPanic == "none"

RemByZero == "attempt to calculate the remainder with a divisor of zero"

(***************************************************************************)
(* Pure helpers of NumberKeyMap.                                           *)
(***************************************************************************)

get_started_slot_idx_for_key(key, cap) == key % cap

\* hints::assert_hint(cond, msg): the call goes on when cond holds and aborts
\* the process with msg when it does not.  The result is the panic raised.
assert_hint(cond, msg) == IF cond THEN "none" ELSE msg

InvalidKey == "key should be not equal to usize::MAX"

\* A mutant of validate_key: the reserved key is let through.
validate_key_any(key) == key = key

\* The condition validate_key asserts.
validate_key(key) == key # MAX_KEY

\* usize::is_power_of_two: exactly one bit set.
RECURSIVE is_power_of_two(_)
is_power_of_two(n) ==
    IF n <= 0 THEN FALSE
    ELSE IF n = 1 THEN TRUE
    ELSE n % 2 = 0 /\ is_power_of_two(n \div 2)

\* A mutant of greater_capacity: the small-table branch is missing, and
\* 3 * 8 / 7 is 3 again.
greater_capacity_flat(cap) ==
    LET new_capacity == (cap * 8) \div 7
    IN  IF is_power_of_two(new_capacity) THEN new_capacity + 1
        ELSE new_capacity

\* capacity * 8 is a product of machine words: what a build without
\* overflow checks computes.
greater_capacity(cap) ==
    IF cap < 16 THEN cap * 2 + 2
    ELSE LET new_capacity == ((cap * 8) % (MAX_KEY + 1)) \div 7
         IN  IF is_power_of_two(new_capacity) THEN new_capacity + 1
             ELSE new_capacity

get(in, cap, sl, key) ==
    IF in = NULL THEN None
    ELSE LET idx == get_started_slot_idx_for_key(key, cap)
         IN  IF sl[idx].key = key THEN Some(sl[idx].value) ELSE None

get_mut(in, cap, sl, key) ==
    IF in = NULL THEN None
    ELSE LET idx == get_started_slot_idx_for_key(key, cap)
         IN  IF sl[idx].key = key THEN Some(sl[idx].value) ELSE None

\* A mutant of insert_or_fail: linear probing, the entry goes to the next
\* slot when its own is taken by another key and the next one is vacant.
insert_or_fail_probing(buf, cap, key, value) ==
    LET idx == get_started_slot_idx_for_key(key, cap)
        nxt == (idx + 1) % cap
    IN  IF buf[idx].key = MAX_KEY
        THEN [res |-> "Ok", buf |-> [buf EXCEPT ![idx] = Slot(key, value)]]
        ELSE IF key = buf[idx].key
        THEN [res |-> "KeyAlreadyExists", buf |-> buf]
        ELSE IF buf[nxt].key = MAX_KEY
        THEN [res |-> "Ok", buf |-> [buf EXCEPT ![nxt] = Slot(key, value)]]
        ELSE [res |-> "NotEnoughSpace", buf |-> buf]

\* A mutant of insert_or_fail: a key that is already there is overwritten.
insert_or_fail_overwriting(buf, cap, key, value) ==
    LET idx == get_started_slot_idx_for_key(key, cap)
    IN  IF buf[idx].key = MAX_KEY \/ buf[idx].key = key
        THEN [res |-> "Ok", buf |-> [buf EXCEPT ![idx] = Slot(key, value)]]
        ELSE [res |-> "NotEnoughSpace", buf |-> buf]

insert_or_fail(buf, cap, key, value) ==
    LET idx == get_started_slot_idx_for_key(key, cap)
    IN  IF buf[idx].key = MAX_KEY
        THEN [res |-> "Ok", buf |-> [buf EXCEPT ![idx] = Slot(key, value)]]
        ELSE IF key = buf[idx].key
        THEN [res |-> "KeyAlreadyExists", buf |-> buf]
        ELSE [res |-> "NotEnoughSpace", buf |-> buf]

(***************************************************************************)
(* Resize: slow_insert's 'allocate loop.                                   *)
(***************************************************************************)

\* A freshly allocated buffer, every key preset to usize::MAX.
new_buffer(new_capacity) == [i \in 0 .. new_capacity - 1 |-> VacantSlot]

\* The loop `for idx in 0..self.capacity` of slow_insert, from idx on: every
\* live entry of the old buffer goes into the candidate through
\* insert_or_fail; the loop stops at the first one that fails.
RECURSIVE copy_entries(_, _, _, _, _)
copy_entries(old, oldcap, buf, newcap, idx) ==
    IF idx >= oldcap THEN [res |-> "Ok", buf |-> buf]
    ELSE IF old[idx].key # MAX_KEY
    THEN LET r == insert_or_fail(buf, newcap, old[idx].key, old[idx].value)
         IN  IF r.res # "Ok" THEN [res |-> r.res, buf |-> buf]
             ELSE copy_entries(old, oldcap, r.buf, newcap, idx + 1)
    ELSE copy_entries(old, oldcap, buf, newcap, idx + 1)

\* A mutant of copy_live_entries: the loop goes over the old buffer twice.
copy_live_entries_twice(old, oldcap, buf, newcap) ==
    LET c == copy_entries(old, oldcap, buf, newcap, 0)
    IN  IF c.res = "Ok" THEN copy_entries(old, oldcap, c.buf, newcap, 0) ELSE c

\* A mutant of copy_live_entries: the copy loop starts at index 1.
copy_live_entries_from_one(old, oldcap, buf, newcap) ==
    copy_entries(old, oldcap, buf, newcap, 1)

copy_live_entries(old, oldcap, buf, newcap) ==
    copy_entries(old, oldcap, buf, newcap, 0)

DuplicateWhileCopying == "invalid inner state is detected while reallocating: duplicate key"

\* A mutant of allocate_pass: a candidate given up at the insert of the new
\* entry is kept as the map's buffer all the same.
allocate_pass_keeping_candidate(old, oldcap, key, value, new_capacity) ==
    LET c == copy_live_entries(old, oldcap, new_buffer(new_capacity), new_capacity)
    IN  IF c.res = "KeyAlreadyExists"
        THEN [outcome |-> "panic", inner |-> ALLOCATED, capacity |-> oldcap,
              slots |-> old, ret |-> None, panic |-> DuplicateWhileCopying]
        ELSE IF c.res = "NotEnoughSpace"
        THEN [outcome |-> "retry", inner |-> ALLOCATED, capacity |-> oldcap,
              slots |-> old, ret |-> None, panic |-> NoPanic]
        ELSE LET r == insert_or_fail(c.buf, new_capacity, key, value)
             IN  IF r.res = "Ok"
                 THEN [outcome |-> "commit", inner |-> ALLOCATED,
                       capacity |-> new_capacity, slots |-> r.buf,
                       ret |-> Ok, panic |-> NoPanic]
                 ELSE IF r.res = "NotEnoughSpace"
                 THEN [outcome |-> "retry", inner |-> ALLOCATED,
                       capacity |-> new_capacity, slots |-> c.buf,
                       ret |-> None, panic |-> NoPanic]
                 ELSE [outcome |-> "commit", inner |-> ALLOCATED,
                       capacity |-> new_capacity, slots |-> r.buf,
                       ret |-> Err(value), panic |-> NoPanic]

\* One pass of the 'allocate loop with candidate new_capacity: a candidate
\* buffer is allocated and preset, the live entries are copied into it and
\* the new entry is inserted.  outcome is "retry" when the candidate is
\* deallocated and the loop goes on with a greater capacity, "commit" when
\* the candidate is adopted and insert returns ret, "panic" when the
\* assertion of the copy loop fails.  The rest is the map after the pass.
allocate_pass(old, oldcap, key, value, new_capacity) ==
    LET c == copy_live_entries(old, oldcap, new_buffer(new_capacity), new_capacity)
    IN  IF c.res = "KeyAlreadyExists"
        THEN \* assert_hint(matches!(res, Err(NotEnoughSpace)), ...)
             [outcome |-> "panic", inner |-> ALLOCATED, capacity |-> oldcap,
              slots |-> old, ret |-> None, panic |-> DuplicateWhileCopying]
        ELSE IF c.res = "NotEnoughSpace"
        THEN [outcome |-> "retry", inner |-> ALLOCATED, capacity |-> oldcap,
              slots |-> old, ret |-> None, panic |-> NoPanic]
        ELSE LET r == insert_or_fail(c.buf, new_capacity, key, value)
             IN  IF r.res = "Ok"
                 THEN [outcome |-> "commit", inner |-> ALLOCATED,
                       capacity |-> new_capacity, slots |-> r.buf,
                       ret |-> Ok, panic |-> NoPanic]
                 ELSE IF r.res = "NotEnoughSpace"
                 THEN [outcome |-> "retry", inner |-> ALLOCATED,
                       capacity |-> oldcap, slots |-> old, ret |-> None,
                       panic |-> NoPanic]
                 ELSE \* KeyAlreadyExists: the resize is committed all the same
                      [outcome |-> "commit", inner |-> ALLOCATED,
                       capacity |-> new_capacity, slots |-> r.buf,
                       ret |-> Err(value), panic |-> NoPanic]

\* A mutant of allocate_loop: a retry skips a value of the growth chain.
RECURSIVE allocate_loop_skipping(_, _, _, _, _, _)
allocate_loop_skipping(old, oldcap, key, value, new_capacity, attempts) ==
    LET p == allocate_pass(old, oldcap, key, value, new_capacity)
    IN  IF p.outcome = "retry"
        THEN allocate_loop_skipping(old, oldcap, key, value,
                                    greater_capacity(greater_capacity(new_capacity)),
                                    attempts + 1)
        ELSE [inner |-> p.inner, capacity |-> p.capacity, slots |-> p.slots,
              ret |-> p.ret, attempts |-> attempts, panic |-> p.panic]

\* The 'allocate loop from the pass with candidate new_capacity on.  The
\* result is the map's state at return, what insert returns, and attempts,
\* the number of candidate buffers allocated.
RECURSIVE allocate_loop(_, _, _, _, _, _)
allocate_loop(old, oldcap, key, value, new_capacity, attempts) ==
    LET p == allocate_pass(old, oldcap, key, value, new_capacity)
    IN  IF p.outcome = "retry"
        THEN allocate_loop(old, oldcap, key, value,
                           greater_capacity(new_capacity), attempts + 1)
        ELSE [inner |-> p.inner, capacity |-> p.capacity, slots |-> p.slots,
              ret |-> p.ret, attempts |-> attempts, panic |-> p.panic]

slow_insert(cap, sl, key, value) ==
    allocate_loop(sl, cap, key, value, greater_capacity(cap), 1)

insert_first(key, value) ==
    [inner |-> ALLOCATED, capacity |-> 1,
     slots |-> [i \in {0} |-> Slot(key, value)],
     ret |-> Ok, attempts |-> 0, panic |-> NoPanic]

insert(in, cap, sl, key, value) ==
    IF in = NULL THEN insert_first(key, value)
    ELSE LET res == insert_or_fail(sl, cap, key, value)
         IN  IF res.res = "Ok"
             THEN [inner |-> in, capacity |-> cap, slots |-> res.buf,
                   ret |-> Ok, attempts |-> 0, panic |-> NoPanic]
             ELSE slow_insert(cap, sl, key, value)

(***************************************************************************)
(* remove, clear.                                                          *)
(***************************************************************************)

\* A mutant of remove: the buffer is given back when its last entry goes.
remove_freeing_empty(in, cap, sl, key) ==
    IF cap = 0
    THEN [inner |-> in, capacity |-> cap, slots |-> sl, ret |-> None,
          panic |-> RemByZero]
    ELSE LET idx == get_started_slot_idx_for_key(key, cap)
             left == [sl EXCEPT ![idx] = VacantSlot]
         IN  IF sl[idx].key = MAX_KEY
             THEN [inner |-> in, capacity |-> cap, slots |-> sl, ret |-> None,
                   panic |-> NoPanic]
             ELSE IF \A i \in DOMAIN left : left[i].key = MAX_KEY
             THEN [inner |-> NULL, capacity |-> 0, slots |-> <<>>,
                   ret |-> Some(sl[idx].value), panic |-> NoPanic]
             ELSE [inner |-> in, capacity |-> cap, slots |-> left,
                   ret |-> Some(sl[idx].value), panic |-> NoPanic]

\* A mutant of remove: the slot's key is not reset to usize::MAX.
remove_keeping_key(in, cap, sl, key) ==
    IF cap = 0
    THEN [inner |-> in, capacity |-> cap, slots |-> sl, ret |-> None,
          panic |-> RemByZero]
    ELSE LET idx == get_started_slot_idx_for_key(key, cap)
         IN  IF sl[idx].key = MAX_KEY
             THEN [inner |-> in, capacity |-> cap, slots |-> sl, ret |-> None,
                   panic |-> NoPanic]
             ELSE [inner |-> in, capacity |-> cap, slots |-> sl,
                   ret |-> Some(sl[idx].value), panic |-> NoPanic]

\* `key % self.capacity` panics when the capacity is 0; otherwise the slot
\* is emptied and its value returned unless its key is usize::MAX.
remove(in, cap, sl, key) ==
    IF cap = 0
    THEN [inner |-> in, capacity |-> cap, slots |-> sl, ret |-> None,
          panic |-> RemByZero]
    ELSE LET idx == get_started_slot_idx_for_key(key, cap)
         IN  IF sl[idx].key = MAX_KEY
             THEN [inner |-> in, capacity |-> cap, slots |-> sl, ret |-> None,
                   panic |-> NoPanic]
             ELSE [inner |-> in, capacity |-> cap,
                   slots |-> [sl EXCEPT ![idx] = VacantSlot],
                   ret |-> Some(sl[idx].value), panic |-> NoPanic]

\* The loop `for i in 0..self.capacity` of clear_with, from i on: func is
\* called with every live entry, whose slot is then marked vacant.  calls
\* is the sequence of func's arguments.
RECURSIVE clear_loop(_, _, _, _)
clear_loop(sl, cap, i, calls) ==
    IF i >= cap THEN [slots |-> sl, calls |-> calls]
    ELSE IF sl[i].key # MAX_KEY
    THEN clear_loop([sl EXCEPT ![i] = VacantSlot], cap, i + 1,
                    Append(calls, <<sl[i].key, sl[i].value>>))
    ELSE clear_loop(sl, cap, i + 1, calls)

\* A mutant of clear_with: the buffer is shrunk to one slot.
clear_with_shrinking(in, cap, sl) ==
    IF in = NULL
    THEN [inner |-> in, capacity |-> cap, slots |-> sl, calls |-> <<>>]
    ELSE [inner |-> in, capacity |-> 1, slots |-> new_buffer(1),
          calls |-> clear_loop(sl, cap, 0, <<>>).calls]

\* A mutant of clear_with: the loop starts at index 1.
clear_with_from_one(in, cap, sl) ==
    IF in = NULL
    THEN [inner |-> in, capacity |-> cap, slots |-> sl, calls |-> <<>>]
    ELSE LET r == clear_loop(sl, cap, 1, <<>>)
         IN  [inner |-> in, capacity |-> cap, slots |-> r.slots,
              calls |-> r.calls]

clear_with(in, cap, sl) ==
    IF in = NULL
    THEN [inner |-> in, capacity |-> cap, slots |-> sl, calls |-> <<>>]
    ELSE LET r == clear_loop(sl, cap, 0, <<>>)
         IN  [inner |-> in, capacity |-> cap, slots |-> r.slots,
              calls |-> r.calls]

(***************************************************************************)
(* The lazy iterators: iter() and drain() hand out {ptr, end} over the     *)
(* buffer; ptr is kept as a slot index and end is the capacity.            *)
(***************************************************************************)

NoIter == [kind |-> "none", ptr |-> 0]

\* A mutant of scan: the occupied slot found is the last one, not the first.
scan_from_end(sl, ptr, end) ==
    LET occupied == {i \in ptr .. end - 1 : sl[i].key # MAX_KEY}
    IN  IF occupied = {} THEN end
        ELSE CHOOSE i \in occupied : \A j \in occupied : j <= i

\* The loop `while self.ptr < self.end` of next(): the index of the first
\* occupied slot from ptr on, or end when there is none.
RECURSIVE scan(_, _, _)
scan(sl, ptr, end) ==
    IF ptr >= end THEN end
    ELSE IF sl[ptr].key # MAX_KEY THEN ptr
    ELSE scan(sl, ptr + 1, end)

\* A mutant of Iter::next: the slot yielded is marked vacant.
iter_next_vacating(sl, cap, ptr) ==
    LET at == scan(sl, ptr, cap)
    IN  IF at < cap
        THEN [ptr |-> at + 1, key |-> sl[at].key, ret |-> Some(sl[at].value),
              slots |-> [sl EXCEPT ![at] = VacantSlot]]
        ELSE [ptr |-> at, key |-> MAX_KEY, ret |-> None, slots |-> sl]

\* A mutant of Drain::next: the slot yielded keeps its key.
drain_next_keeping(sl, cap, ptr) ==
    LET at == scan(sl, ptr, cap)
    IN  IF at < cap
        THEN [ptr |-> at + 1, key |-> sl[at].key, ret |-> Some(sl[at].value),
              slots |-> sl]
        ELSE [ptr |-> at, key |-> MAX_KEY, ret |-> None, slots |-> sl]

\* Iter::next: the next occupied slot is yielded and left as it is.
iter_next(sl, cap, ptr) ==
    LET at == scan(sl, ptr, cap)
    IN  IF at < cap
        THEN [ptr |-> at + 1, key |-> sl[at].key, ret |-> Some(sl[at].value),
              slots |-> sl]
        ELSE [ptr |-> at, key |-> MAX_KEY, ret |-> None, slots |-> sl]

\* Drain::next: the next occupied slot is yielded and marked vacant.
drain_next(sl, cap, ptr) ==
    LET at == scan(sl, ptr, cap)
    IN  IF at < cap
        THEN [ptr |-> at + 1, key |-> sl[at].key, ret |-> Some(sl[at].value),
              slots |-> [sl EXCEPT ![at] = VacantSlot]]
        ELSE [ptr |-> at, key |-> MAX_KEY, ret |-> None, slots |-> sl]

\* A mutant of iter_drop: a Drain that is dropped marks the slots it has not
\* reached vacant, as a destructor draining the rest would.
iter_drop_vacating(sl, cap, it) ==
    IF it.kind = "drain" THEN clear_loop(sl, cap, it.ptr, <<>>).slots ELSE sl

\* The buffer after the iterator it is dropped: Iter, IterMut and Drain have
\* no Drop impl, so nothing is read or written.
iter_drop(sl, cap, it) == sl

(***************************************************************************)
(* The history of a run of inserts with pairwise distinct keys on a new    *)
(* map, as in tests::test_number_key_map_insert_and_get.                   *)
(***************************************************************************)

NoRun == [ok |-> FALSE, m |-> <<>>]

run_after_insert(r, key, value) ==
    IF r.ok /\ key \notin DOMAIN r.m
    THEN [ok |-> TRUE, m |-> (key :> value) @@ r.m]
    ELSE NoRun

Call(op, key, value, ret) == [op |-> op, key |-> key, value |-> value, ret |-> ret]

(***************************************************************************)
(* The state machine: one action per public call.  A call on the map needs *)
(* the map not to be borrowed by an iterator; nothing runs after a panic.  *)
(***************************************************************************)

\* The value of a variable in a specification that does not use it.
Unused == "unused"

ExtUnused ==
    /\ mem = Unused
    /\ vq = Unused
    /\ aq = Unused
    /\ clk = Unused
    /\ grow = Unused

Init ==
    /\ inner = NULL
    /\ capacity = 0
    /\ slots = <<>>
    /\ iter = NoIter
    /\ panic = NoPanic
    /\ rz = Unused
    /\ own = Unused
    /\ rd = Unused
    /\ pool = Unused
    /\ last = Call("new", MAX_KEY, NoValue, None)
    /\ ExtUnused
    /\ run = [ok |-> TRUE, m |-> <<>>]

Get(key) ==
    /\ panic = NoPanic
    /\ UNCHANGED auxVars
    /\ iter.kind = "none"
    /\ validate_key(key)
    /\ last' = Call("get", key, NoValue, get(inner, capacity, slots, key))
    /\ UNCHANGED <<inner, capacity, slots, iter, panic, run>>

Insert(key, value) ==
    /\ panic = NoPanic
    /\ UNCHANGED auxVars
    /\ iter.kind = "none"
    /\ validate_key(key)
    /\ LET r == insert(inner, capacity, slots, key, value)
       IN  /\ r.capacity <= MaxCapacity
           /\ inner' = r.inner
           /\ capacity' = r.capacity
           /\ slots' = r.slots
           /\ panic' = r.panic
           /\ last' = Call("insert", key, value, r.ret)
    /\ run' = run_after_insert(run, key, value)
    /\ UNCHANGED iter

Remove(key) ==
    /\ panic = NoPanic
    /\ UNCHANGED auxVars
    /\ iter.kind = "none"
    /\ validate_key(key)
    /\ LET r == remove(inner, capacity, slots, key)
       IN  /\ inner' = r.inner
           /\ capacity' = r.capacity
           /\ slots' = r.slots
           /\ panic' = r.panic
           /\ last' = Call("remove", key, NoValue, r.ret)
    /\ run' = NoRun
    /\ UNCHANGED iter

Clear ==
    /\ panic = NoPanic
    /\ UNCHANGED auxVars
    /\ iter.kind = "none"
    /\ LET r == clear_with(inner, capacity, slots)
       IN  /\ inner' = r.inner
           /\ capacity' = r.capacity
           /\ slots' = r.slots
           /\ last' = Call("clear", MAX_KEY, NoValue, Calls(r.calls))
    /\ run' = NoRun
    /\ UNCHANGED <<iter, panic>>

Iter ==
    /\ panic = NoPanic
    /\ UNCHANGED auxVars
    /\ iter.kind = "none"
    /\ iter' = [kind |-> "iter", ptr |-> 0]
    /\ last' = Call("iter", MAX_KEY, NoValue, None)
    /\ UNCHANGED <<inner, capacity, slots, panic, run>>

IterNext ==
    /\ panic = NoPanic
    /\ UNCHANGED auxVars
    /\ iter.kind = "iter"
    /\ LET r == iter_next(slots, capacity, iter.ptr)
       IN  /\ iter' = [iter EXCEPT !.ptr = r.ptr]
           /\ slots' = r.slots
           /\ last' = Call("iter.next", r.key, NoValue, r.ret)
    /\ UNCHANGED <<inner, capacity, panic, run>>

Drain ==
    /\ panic = NoPanic
    /\ UNCHANGED auxVars
    /\ iter.kind = "none"
    /\ iter' = [kind |-> "drain", ptr |-> 0]
    /\ last' = Call("drain", MAX_KEY, NoValue, None)
    /\ run' = NoRun
    /\ UNCHANGED <<inner, capacity, slots, panic>>

DrainNext ==
    /\ panic = NoPanic
    /\ UNCHANGED auxVars
    /\ iter.kind = "drain"
    /\ LET r == drain_next(slots, capacity, iter.ptr)
       IN  /\ iter' = [iter EXCEPT !.ptr = r.ptr]
           /\ slots' = r.slots
           /\ last' = Call("drain.next", r.key, NoValue, r.ret)
    /\ UNCHANGED <<inner, capacity, panic, run>>

\* The iterator is dropped: neither Iter nor Drain has a destructor.
IterDrop ==
    /\ panic = NoPanic
    /\ UNCHANGED auxVars
    /\ iter.kind # "none"
    /\ iter' = NoIter
    /\ slots' = iter_drop(slots, capacity, iter)
    /\ last' = Call(IF iter.kind = "drain" THEN "drain.drop" ELSE "iter.drop",
                    MAX_KEY, NoValue, None)
    /\ UNCHANGED <<inner, capacity, panic, run>>

\* get, get_mut, insert or remove called with a key validate_key rejects:
\* the assertion is the first statement of each, and ends the process.
InvalidKeyCall(op, key) ==
    /\ panic = NoPanic
    /\ UNCHANGED auxVars
    /\ iter.kind = "none"
    /\ ~validate_key(key)
    /\ panic' = assert_hint(validate_key(key), InvalidKey)
    /\ last' = Call(op, key, NoValue, None)
    /\ UNCHANGED <<inner, capacity, slots, iter, run>>

\* The keys a caller may pass: usize has no other values than these.
CallKeys == Keys \cup {MAX_KEY}

KeyOps == {"get", "get_mut", "insert", "remove"}

Next ==
    \/ \E key \in CallKeys : Get(key)
    \/ \E key \in CallKeys, value \in Values : Insert(key, value)
    \/ \E key \in CallKeys : Remove(key)
    \/ \E op \in KeyOps, key \in CallKeys : InvalidKeyCall(op, key)
    \/ Clear
    \/ Iter
    \/ IterNext
    \/ Drain
    \/ DrainNext
    \/ IterDrop

Spec == Init /\ [][Next]_vars

TypeOK ==
    /\ inner \in {NULL, ALLOCATED}
    /\ capacity \in 0 .. MaxCapacity
    /\ DOMAIN slots = 0 .. capacity - 1
    /\ panic \in {NoPanic, RemByZero, InvalidKey, DuplicateWhileCopying}
    /\ extVars = <<Unused, Unused, Unused, Unused, Unused>>

(***************************************************************************)
(* What the claims speak of.                                               *)
(***************************************************************************)

\* The live entries of a buffer, as (key, value) pairs.
Live(sl) == {<<sl[i].key, sl[i].value>> : i \in {j \in DOMAIN sl : sl[j].key # MAX_KEY}}

LiveKeys(sl) == {sl[i].key : i \in {j \in DOMAIN sl : sl[j].key # MAX_KEY}}

GetNow(key) == get(inner, capacity, slots, key)

GetNext(key) == get(inner', capacity', slots', key)

(***************************************************************************)
(* C1..C10                                                                 *)
(***************************************************************************)

\* C1: single-probe invariant.  In every reachable state every live key k
\* sits in the slot at index k mod capacity, no key occupies two slots, and
\* get(k) returns its value from that one slot.
C1_SingleProbe ==
    \A idx \in DOMAIN slots :
        slots[idx].key # MAX_KEY =>
            /\ slots[idx].key % capacity = idx
            /\ \A other \in DOMAIN slots :
                   other # idx => slots[other].key # slots[idx].key
            /\ GetNow(slots[idx].key) = Some(slots[idx].value)

\* C1's case: after resizes, removals and a drain, a map of capacity 22
\* holding at least three live keys, two of which shared a slot before.
C1_Witness ==
    /\ capacity = 22
    /\ {0, 10, 20} \subseteq LiveKeys(slots)
    /\ last.op = "insert"
    /\ ~run.ok

\* C2: round trip.  While every mutating call since new() was an insert of
\* a key not inserted before, and no call was given the reserved key, each
\* insert has returned Ok, and get and get_mut return for every inserted key
\* the value inserted under it, right after its insert and after every later
\* one, whatever resizes happened.
C2_RoundTrip ==
    (run.ok /\ ~(last.op \in KeyOps /\ last.key = MAX_KEY)) =>
        /\ last.op = "insert" => last.ret = Ok
        /\ \A k \in DOMAIN run.m :
               /\ GetNow(k) = Some(run.m[k])
               /\ get_mut(inner, capacity, slots, k) = Some(run.m[k])

\* C2's case: all five keys inserted, pairwise distinct, through the resizes
\* 1 -> 4 (or 10) -> ... -> 22.
C2_Witness ==
    /\ run.ok
    /\ DOMAIN run.m = Keys
    /\ capacity = 22
    /\ last.op = "insert"

\* C3: remove(k) returns the value stored under k exactly when k is live;
\* when k is not live it returns absent and removes nothing, also when the
\* slot at k mod capacity holds another key.  (Stated of the calls that
\* return; C6 is about the call that does not.)
C3_RemoveExactlyLive ==
    [][\A k \in Keys :
          (Remove(k) /\ panic' = NoPanic) =>
              IF GetNow(k).tag = "Some"
              THEN last'.ret = GetNow(k)
              ELSE last'.ret = None /\ slots' = slots]_vars

\* C4: remove(k) affects no entry but k's: get(j) is the same before and
\* after for every other key j, and the capacity does not change.
C4_RemoveFrame ==
    [][\A k \in Keys :
          Remove(k) =>
              /\ capacity' = capacity
              /\ \A j \in Keys \ {k} : GetNext(j) = GetNow(j)]_vars

\* C5: when k is live, remove(k) returns k's value, get(k) is absent
\* afterwards and a second remove(k) returns absent.
C5_RemoveLive ==
    [][\A k \in Keys :
          (Remove(k) /\ GetNow(k).tag = "Some") =>
              /\ last'.ret = GetNow(k)
              /\ GetNext(k) = None
              /\ remove(inner', capacity', slots', k).ret = None
              /\ remove(inner', capacity', slots', k).panic = NoPanic
              /\ remove(inner', capacity', slots', k).slots = slots']_vars

\* C5's case: a live key has just been removed, at a capacity where other
\* keys live on.
C5_Witness ==
    /\ last.op = "remove"
    /\ last.ret.tag = "Some"
    /\ GetNow(last.key) = None
    /\ LiveKeys(slots) # {}

\* C6: no public call with a valid key ends the process; remove on a map
\* that was never allocated returns absent.
C6_NoAbort == panic = NoPanic \/ last.key = MAX_KEY

\* C7: duplicate rejection.  insert(k, v2) while k is live with v1 returns
\* Err(v2), get(k) is still v1, and the live entries are what they were.
C7_DuplicateRejected ==
    [][\A k \in Keys, v2 \in Values :
          (Insert(k, v2) /\ GetNow(k).tag = "Some") =>
              /\ last'.ret = Err(v2)
              /\ GetNext(k) = GetNow(k)
              /\ Live(slots') = Live(slots)]_vars

\* C7's case: an insert under a live key, with another value than the one
\* stored, has been rejected while other keys were live too.
C7_Witness ==
    /\ last.op = "insert"
    /\ last.ret.tag = "Err"
    /\ GetNow(last.key).tag = "Some"
    /\ GetNow(last.key).v # last.value
    /\ Cardinality(LiveKeys(slots)) >= 2

\* C8: an insert into an allocated map changes the capacity only when the
\* slot at key mod capacity holds another key; with that slot vacant or
\* holding the same key the capacity stays.
C8_ResizeOnlyOnCollision ==
    [][\A k \in Keys, v \in Values :
          (Insert(k, v) /\ inner # NULL /\ capacity' # capacity) =>
              slots[k % capacity].key \notin {MAX_KEY, k}]_vars

\* C9: capacity monotonicity.  No call makes the capacity smaller.
C9_CapacityMonotone == [][capacity' >= capacity]_vars

\* C9's case: a grown map has been cleared.
C9_Witness ==
    /\ last.op = "clear"
    /\ capacity = 22

\* C10: a capacity greater than 1 is never a power of two.
C10_NotPowerOfTwo == capacity > 1 => ~is_power_of_two(capacity)

(***************************************************************************)
(* C11..C20                                                                *)
(***************************************************************************)

\* C18: a call of get, get_mut, insert or remove with the reserved key
\* usize::MAX ends the process before any slot is read or written: the map
\* is what it was, and no slot whose key is usize::MAX holds a value.
C18_ReservedKeyAborts ==
    [][(last'.key = MAX_KEY /\ last'.op \in KeyOps) =>
          /\ panic' = InvalidKey
          /\ UNCHANGED <<inner, capacity, slots>>
          /\ \A idx \in DOMAIN slots' :
                 slots'[idx].key = MAX_KEY => slots'[idx].value = NoValue]_vars

\* C18's case: insert was called with usize::MAX on a map holding entries.
C18_Witness ==
    /\ panic = InvalidKey
    /\ last.op = "insert"
    /\ last.key = MAX_KEY
    /\ Cardinality(LiveKeys(slots)) >= 2

\* C13: clear_with(f) calls f once for every live entry, with its key and
\* value, marks every slot vacant and leaves capacity and buffer as they
\* are; a clear_with right after it calls f zero times, and every get
\* returns absent.
C13_ClearWith ==
    [][Clear =>
          LET calls == last'.ret.v
          IN  /\ last'.ret.tag = "Calls"
              /\ Len(calls) = Cardinality(Live(slots))
              /\ {calls[i] : i \in 1 .. Len(calls)} = Live(slots)
              /\ \A idx \in DOMAIN slots' : slots'[idx] = VacantSlot
              /\ capacity' = capacity
              /\ inner' = inner
              /\ DOMAIN slots' = DOMAIN slots
              /\ clear_with(inner', capacity', slots').calls = <<>>
              /\ \A k \in Keys : GetNext(k) = None]_vars

\* C13's case: a map of capacity 22 holding four entries or more has been
\* cleared.
C13_Witness ==
    /\ last.op = "clear"
    /\ capacity = 22
    /\ Len(last.ret.v) >= 4
    /\ Live(slots) = {}

\* C15, as claimed: when a drain sequence is dropped before it is exhausted,
\* every slot it has not yielded is left marked vacant.
C15_DroppedDrainVacates ==
    [][(IterDrop /\ iter.kind = "drain") =>
          \A idx \in DOMAIN slots :
              idx >= iter.ptr => slots'[idx].key = MAX_KEY]_vars

\* C15, amended: when a drain sequence is dropped, every slot it has not
\* yielded is left as it is: an occupied one stays occupied, its key is
\* still returned by get, with its value, which has not been moved out.
C15_DroppedDrainKeeps ==
    [][(IterDrop /\ iter.kind = "drain") =>
          /\ slots' = slots
          /\ capacity' = capacity
          /\ \A k \in Keys : GetNext(k) = GetNow(k)
          /\ \A idx \in DOMAIN slots :
                 (idx >= iter.ptr /\ slots[idx].key # MAX_KEY) =>
                     GetNext(slots[idx].key) = Some(slots[idx].value)]_vars

\* C15's case: a drain sequence was dropped after it had yielded an entry
\* and before it reached two others.
C15_Witness ==
    /\ last.op = "drain.drop"
    /\ Cardinality(LiveKeys(slots)) >= 2
    /\ slots[0] = VacantSlot
    /\ capacity = 22

(***************************************************************************)
(* The resize retry loop of slow_insert, one pass at a time.               *)
(***************************************************************************)

\* The passes of one call are counted up to this number.
MaxAttemptsCounted == 3

RzIdle(key, value, attempts) ==
    [pc |-> "idle", key |-> key, value |-> value, new_capacity |-> 0,
     attempts |-> attempts]

InitRz ==
    /\ inner = NULL
    /\ capacity = 0
    /\ slots = <<>>
    /\ iter = NoIter
    /\ panic = NoPanic
    /\ rz = RzIdle(MAX_KEY, NoValue, 0)
    /\ own = Unused
    /\ rd = Unused
    /\ pool = Unused
    /\ last = Call("new", MAX_KEY, NoValue, None)
    /\ ExtUnused
    /\ run = NoRun

\* insert up to the call of slow_insert: the first insert and the insert
\* into a vacant home slot return at once, anything else enters the
\* 'allocate loop with the candidate greater_capacity(capacity).
RzInsert(key, value) ==
    /\ panic = NoPanic
    /\ rz.pc = "idle"
    /\ validate_key(key)
    /\ LET res == insert_or_fail(slots, capacity, key, value)
       IN  IF inner = NULL
           THEN LET r == insert_first(key, value)
                IN  /\ inner' = r.inner
                    /\ capacity' = r.capacity
                    /\ slots' = r.slots
                    /\ last' = Call("insert", key, value, r.ret)
                    /\ rz' = RzIdle(key, value, 0)
           ELSE IF res.res = "Ok"
           THEN /\ slots' = res.buf
                /\ last' = Call("insert", key, value, Ok)
                /\ rz' = RzIdle(key, value, 0)
                /\ UNCHANGED <<inner, capacity>>
           ELSE /\ greater_capacity(capacity) <= MaxCapacity
                /\ rz' = [pc |-> "allocate", key |-> key, value |-> value,
                          new_capacity |-> greater_capacity(capacity),
                          attempts |-> 0]
                /\ UNCHANGED <<inner, capacity, slots, last>>
    /\ UNCHANGED <<iter, panic, run, own, rd, pool, extVars>>

\* One pass of the 'allocate loop: a retry goes on with the next candidate,
\* anything else ends the call.
RzAttempt ==
    /\ panic = NoPanic
    /\ rz.pc = "allocate"
    /\ LET p == allocate_pass(slots, capacity, rz.key, rz.value, rz.new_capacity)
           n == IF rz.attempts < MaxAttemptsCounted THEN rz.attempts + 1
                ELSE rz.attempts
       IN  IF p.outcome = "retry"
           THEN /\ rz' = [rz EXCEPT !.new_capacity = greater_capacity(@),
                                    !.attempts = n]
                /\ inner' = p.inner
                /\ capacity' = p.capacity
                /\ slots' = p.slots
                /\ UNCHANGED <<panic, last>>
           ELSE /\ inner' = p.inner
                /\ capacity' = p.capacity
                /\ slots' = p.slots
                /\ panic' = p.panic
                /\ last' = Call("insert", rz.key, rz.value, p.ret)
                /\ rz' = RzIdle(rz.key, rz.value, n)
    /\ UNCHANGED <<iter, run, own, rd, pool, extVars>>

\* remove, between two inserts.
RzRemove(key) ==
    /\ panic = NoPanic
    /\ rz.pc = "idle"
    /\ validate_key(key)
    /\ LET r == remove(inner, capacity, slots, key)
       IN  /\ inner' = r.inner
           /\ capacity' = r.capacity
           /\ slots' = r.slots
           /\ panic' = r.panic
           /\ last' = Call("remove", key, NoValue, r.ret)
    /\ UNCHANGED <<iter, run, rz, own, rd, pool, extVars>>

NextRz ==
    \/ \E key \in Keys : RzInsert(key, "a")
    \/ RzAttempt
    \/ \E key \in Keys : RzRemove(key)

\* slow_insert is straight-line code with no blocking call: a pass that can
\* run does run.
SpecResize == InitRz /\ [][NextRz]_vars /\ WF_vars(RzAttempt)

\* C11: every insert that enters the resize retry loop leaves it: after
\* finitely many passes a candidate capacity takes every live key and the
\* new key with no collision, the candidate becomes the buffer, and insert
\* returns with its key live in its own slot.
C11_InsertTerminates ==
    (rz.pc = "allocate") ~>
        (/\ rz.pc = "idle"
         /\ panic = NoPanic
         /\ last.op = "insert"
         /\ last.key = rz.key
         /\ GetNow(rz.key) # None
         /\ \A idx \in DOMAIN slots :
                slots[idx].key # MAX_KEY => slots[idx].key % capacity = idx)

\* C11's case: an insert has returned Ok from the loop after a candidate
\* was given up for a collision, on a map already at capacity 4 or more.
C11_Witness ==
    /\ rz.pc = "idle"
    /\ rz.attempts >= 2
    /\ last.op = "insert"
    /\ last.ret = Ok
    /\ capacity = 22
    /\ Cardinality(LiveKeys(slots)) >= 3

(***************************************************************************)
(* Ownership of the values.  The values are tokens of a type that counts   *)
(* the runs of its destructor, as the tests do with Rc and Drop counters.  *)
(* own.drops counts the destructor's runs on each token, own.held is what  *)
(* the caller owns, own.map tells whether the map is alive, forgotten by   *)
(* into_iter or dropped, own.frees counts the dealloc calls on its buffer. *)
(***************************************************************************)

MaxTokens == 3

TokenNames == <<"t1", "t2", "t3", "t4", "t5", "t6">>

Token(n) == TokenNames[n]

Tokens == {Token(n) : n \in 1 .. MaxTokens}

OwnKeys == {0, 1, 4}

\* The destructor runs once on each of toks.
drop_values(drops, toks) ==
    [t \in DOMAIN drops |-> IF t \in toks THEN drops[t] + 1 ELSE drops[t]]

\* The values of the occupied slots from index i on.
LiveValues(sl, cap, i) ==
    {sl[j].value : j \in {idx \in i .. cap - 1 : sl[idx].key # MAX_KEY}}

PairsOf(seq) == {seq[n] : n \in 1 .. Len(seq)}

\* IterMut::next: as Iter::next, handing out &mut.
iter_mut_next(sl, cap, ptr) ==
    LET at == scan(sl, ptr, cap)
    IN  IF at < cap
        THEN [ptr |-> at + 1, key |-> sl[at].key, ret |-> Some(sl[at].value),
              slots |-> sl]
        ELSE [ptr |-> at, key |-> MAX_KEY, ret |-> None, slots |-> sl]

\* IntoIter::next: the value of the next occupied slot is read out; the slot
\* keeps its key, and self.i has passed it.
into_iter_next(sl, cap, i) ==
    LET at == scan(sl, i, cap)
    IN  IF at < cap
        THEN [ptr |-> at + 1, key |-> sl[at].key, ret |-> Some(sl[at].value),
              slots |-> sl]
        ELSE [ptr |-> at, key |-> MAX_KEY, ret |-> None, slots |-> sl]

\* Drop for IntoIter: the values from self.i on are dropped, then the
\* buffer is deallocated; on a map that never allocated the pointer is null.
into_iter_drop(in, cap, sl, i) ==
    [dropped |-> LiveValues(sl, cap, i),
     frees |-> IF in = NULL THEN 0 ELSE 1,
     nullfrees |-> IF in = NULL THEN 1 ELSE 0]

\* A mutant of Drop for NumberKeyMap: mem::needs_drop is taken to be false.
map_drop_leaking(in, cap, sl) ==
    IF in = NULL THEN [dropped |-> {}, frees |-> 0]
    ELSE [dropped |-> {}, frees |-> 1]

\* Drop for NumberKeyMap: nothing on a null buffer; else the value of every
\* occupied slot is dropped in place and the buffer is deallocated.
map_drop(in, cap, sl) ==
    IF in = NULL THEN [dropped |-> {}, frees |-> 0]
    ELSE [dropped |-> LiveValues(sl, cap, 0), frees |-> 1]

\* A mutant of into_iter: self is not forgotten, so its destructor runs when
\* into_iter returns.
into_iter_dropping_self(in, cap, sl) ==
    [iter |-> [kind |-> "into_iter", ptr |-> 0], self |-> "dropped",
     dropped |-> map_drop(in, cap, sl).dropped,
     frees |-> map_drop(in, cap, sl).frees]

\* into_iter: the iterator takes inner and capacity, and self is forgotten.
into_iter(in, cap, sl) ==
    [iter |-> [kind |-> "into_iter", ptr |-> 0], self |-> "forgotten",
     dropped |-> {}, frees |-> 0]

NoSnap == [pairs |-> {}, capacity |-> 0]

NoPrev == [n |-> 0, pairs |-> {}]

InitOwn ==
    /\ inner = NULL
    /\ capacity = 0
    /\ slots = <<>>
    /\ iter = NoIter
    /\ panic = NoPanic
    /\ rz = Unused
    /\ own = [next |-> 0, drops |-> [t \in Tokens |-> 0], held |-> {},
              map |-> "alive", frees |-> 0, nullfrees |-> 0,
              seen |-> <<>>, snap |-> NoSnap, prev |-> NoPrev]
    /\ rd = Unused
    /\ pool = Unused
    /\ last = Call("new", MAX_KEY, NoValue, None)
    /\ ExtUnused
    /\ run = NoRun

OwnInsert(key) ==
    /\ panic = NoPanic
    /\ own.map = "alive"
    /\ iter.kind = "none"
    /\ own.next < MaxTokens
    /\ validate_key(key)
    /\ LET value == Token(own.next + 1)
           r == insert(inner, capacity, slots, key, value)
       IN  /\ r.capacity <= MaxCapacity
           /\ inner' = r.inner
           /\ capacity' = r.capacity
           /\ slots' = r.slots
           /\ panic' = r.panic
           /\ last' = Call("insert", key, value, r.ret)
           /\ own' = [own EXCEPT !.next = @ + 1,
                                 !.held = IF r.ret.tag = "Err"
                                          THEN @ \cup {value} ELSE @,
                                 !.prev = NoPrev]
    /\ UNCHANGED <<iter, run, rz, rd, pool, extVars>>

OwnRemove(key) ==
    /\ panic = NoPanic
    /\ own.map = "alive"
    /\ iter.kind = "none"
    /\ validate_key(key)
    /\ LET r == remove(inner, capacity, slots, key)
       IN  /\ inner' = r.inner
           /\ capacity' = r.capacity
           /\ slots' = r.slots
           /\ panic' = r.panic
           /\ last' = Call("remove", key, NoValue, r.ret)
           /\ own' = [own EXCEPT !.held = IF r.ret.tag = "Some"
                                          THEN @ \cup {r.ret.v} ELSE @,
                                 !.prev = NoPrev]
    /\ UNCHANGED <<iter, run, rz, rd, pool, extVars>>

\* clear(): clear_with(drop).
OwnClear ==
    /\ panic = NoPanic
    /\ own.map = "alive"
    /\ iter.kind = "none"
    /\ LET r == clear_with(inner, capacity, slots)
       IN  /\ inner' = r.inner
           /\ capacity' = r.capacity
           /\ slots' = r.slots
           /\ last' = Call("clear", MAX_KEY, NoValue, Calls(r.calls))
           /\ own' = [own EXCEPT
                         !.drops = drop_values(@, {c[2] : c \in PairsOf(r.calls)}),
                         !.prev = NoPrev]
    /\ UNCHANGED <<iter, panic, run, rz, rd, pool, extVars>>

OwnIter(kind) ==
    /\ panic = NoPanic
    /\ own.map = "alive"
    /\ iter.kind = "none"
    /\ iter' = [kind |-> kind, ptr |-> 0]
    /\ last' = Call(kind, MAX_KEY, NoValue, None)
    /\ own' = [own EXCEPT !.seen = <<>>,
                          !.snap = [pairs |-> Live(slots), capacity |-> capacity]]
    /\ UNCHANGED <<inner, capacity, slots, panic, run, rz, rd, pool, extVars>>

OwnIterNext ==
    /\ panic = NoPanic
    /\ iter.kind \in {"iter", "iter_mut"}
    /\ LET r == IF iter.kind = "iter" THEN iter_next(slots, capacity, iter.ptr)
                ELSE iter_mut_next(slots, capacity, iter.ptr)
       IN  /\ iter' = [iter EXCEPT !.ptr = r.ptr]
           /\ slots' = r.slots
           /\ last' = Call("iter.next", r.key, NoValue, r.ret)
           /\ own' = IF r.ret.tag = "Some"
                     THEN [own EXCEPT !.seen = Append(@, <<r.key, r.ret.v>>)]
                     ELSE own
    /\ UNCHANGED <<inner, capacity, panic, run, rz, rd, pool, extVars>>

OwnDrain ==
    /\ panic = NoPanic
    /\ own.map = "alive"
    /\ iter.kind = "none"
    /\ iter' = [kind |-> "drain", ptr |-> 0]
    /\ last' = Call("drain", MAX_KEY, NoValue, None)
    /\ own' = [own EXCEPT !.seen = <<>>,
                          !.snap = [pairs |-> Live(slots), capacity |-> capacity],
                          !.prev = NoPrev]
    /\ UNCHANGED <<inner, capacity, slots, panic, run, rz, rd, pool, extVars>>

OwnDrainNext ==
    /\ panic = NoPanic
    /\ iter.kind = "drain"
    /\ LET r == drain_next(slots, capacity, iter.ptr)
       IN  /\ iter' = [iter EXCEPT !.ptr = r.ptr]
           /\ slots' = r.slots
           /\ last' = Call("drain.next", r.key, NoValue, r.ret)
           /\ own' = IF r.ret.tag = "Some"
                     THEN [own EXCEPT !.seen = Append(@, <<r.key, r.ret.v>>),
                                      !.held = @ \cup {r.ret.v}]
                     ELSE own
    /\ UNCHANGED <<inner, capacity, panic, run, rz, rd, pool, extVars>>

\* Iter, IterMut or Drain goes out of scope.  An iteration that ended is
\* remembered until the map is changed.
OwnIterDrop ==
    /\ panic = NoPanic
    /\ iter.kind \in {"iter", "iter_mut", "drain"}
    /\ iter' = NoIter
    /\ slots' = iter_drop(slots, capacity, iter)
    /\ last' = Call(IF iter.kind = "drain" THEN "drain.drop" ELSE "iter.drop",
                    MAX_KEY, NoValue, last.ret)
    /\ own' = IF iter.kind # "drain" /\ last.op = "iter.next" /\ last.ret = None
              THEN [own EXCEPT !.prev = [n |-> IF @.n < 2 THEN @.n + 1 ELSE 2,
                                         pairs |-> PairsOf(own.seen)],
                               !.seen = <<>>, !.snap = NoSnap]
              ELSE [own EXCEPT !.seen = <<>>, !.snap = NoSnap]
    /\ UNCHANGED <<inner, capacity, panic, run, rz, rd, pool, extVars>>

OwnIntoIter ==
    /\ panic = NoPanic
    /\ own.map = "alive"
    /\ iter.kind = "none"
    /\ LET r == into_iter(inner, capacity, slots)
       IN  /\ iter' = r.iter
           /\ own' = [own EXCEPT !.map = r.self,
                                 !.drops = drop_values(@, r.dropped),
                                 !.frees = @ + r.frees,
                                 !.seen = <<>>,
                                 !.snap = [pairs |-> Live(slots),
                                           capacity |-> capacity],
                                 !.prev = NoPrev]
    /\ last' = Call("into_iter", MAX_KEY, NoValue, None)
    /\ UNCHANGED <<inner, capacity, slots, panic, run, rz, rd, pool, extVars>>

OwnIntoIterNext ==
    /\ panic = NoPanic
    /\ iter.kind = "into_iter"
    /\ LET r == into_iter_next(slots, capacity, iter.ptr)
       IN  /\ iter' = [iter EXCEPT !.ptr = r.ptr]
           /\ slots' = r.slots
           /\ last' = Call("into_iter.next", r.key, NoValue, r.ret)
           /\ own' = IF r.ret.tag = "Some"
                     THEN [own EXCEPT !.seen = Append(@, <<r.key, r.ret.v>>),
                                      !.held = @ \cup {r.ret.v}]
                     ELSE own
    /\ UNCHANGED <<inner, capacity, panic, run, rz, rd, pool, extVars>>

OwnIntoIterDrop ==
    /\ panic = NoPanic
    /\ iter.kind = "into_iter"
    /\ LET r == into_iter_drop(inner, capacity, slots, iter.ptr)
       IN  own' = [own EXCEPT !.drops = drop_values(@, r.dropped),
                              !.frees = @ + r.frees,
                              !.nullfrees = @ + r.nullfrees]
    /\ iter' = [kind |-> "gone", ptr |-> capacity]
    /\ last' = Call("into_iter.drop", MAX_KEY, NoValue, None)
    /\ UNCHANGED <<inner, capacity, slots, panic, run, rz, rd, pool, extVars>>

\* The map goes out of scope.
OwnMapDrop ==
    /\ panic = NoPanic
    /\ own.map = "alive"
    /\ iter.kind = "none"
    /\ LET r == map_drop(inner, capacity, slots)
       IN  own' = [own EXCEPT !.map = "dropped",
                              !.drops = drop_values(@, r.dropped),
                              !.frees = @ + r.frees]
    /\ last' = Call("drop", MAX_KEY, NoValue, None)
    /\ UNCHANGED <<inner, capacity, slots, iter, panic, run, rz, rd, pool, extVars>>

\* The caller drops a value it was given.
OwnCallerDrop(t) ==
    /\ panic = NoPanic
    /\ t \in own.held
    /\ own' = [own EXCEPT !.drops = drop_values(@, {t}), !.held = @ \ {t}]
    /\ UNCHANGED <<inner, capacity, slots, iter, panic, last, run, rz, rd, pool, extVars>>

NextOwn ==
    \/ \E key \in OwnKeys : OwnInsert(key)
    \/ \E key \in OwnKeys : OwnRemove(key)
    \/ OwnClear
    \/ \E kind \in {"iter", "iter_mut"} : OwnIter(kind)
    \/ OwnIterNext
    \/ OwnDrain
    \/ OwnDrainNext
    \/ OwnIterDrop
    \/ OwnIntoIter
    \/ OwnIntoIterNext
    \/ OwnIntoIterDrop
    \/ OwnMapDrop
    \/ \E t \in Tokens : OwnCallerDrop(t)

SpecOwn == InitOwn /\ [][NextOwn]_vars

Created == {Token(n) : n \in 1 .. own.next}

\* The values the map, or the consuming iterator that took its buffer,
\* still has to destroy.
OwnedByMap ==
    IF own.map = "alive" THEN LiveValues(slots, capacity, 0)
    ELSE IF iter.kind = "into_iter" THEN LiveValues(slots, capacity, iter.ptr)
    ELSE {}

\* Every value made so far is in exactly one place: in the map, with the
\* caller, or destroyed, once.
OwnedOnce ==
    /\ \A t \in Tokens \ Created : own.drops[t] = 0
    /\ \A t \in Created :
           \/ t \in OwnedByMap /\ t \notin own.held /\ own.drops[t] = 0
           \/ t \notin OwnedByMap /\ t \in own.held /\ own.drops[t] = 0
           \/ t \notin OwnedByMap /\ t \notin own.held /\ own.drops[t] = 1

\* C12: no leak and no double drop.  After every call every value made so
\* far is in exactly one place (in the map, with the caller, or destroyed
\* once); insert, with its resizes, and remove run no destructor; the value
\* remove returns and the value a rejected insert hands back are the
\* caller's; the map's drop destroys exactly the values of the occupied
\* slots, after which every value is destroyed once or still the caller's.
C12_NoLeakNoDoubleDrop ==
    [][/\ OwnedOnce'
       /\ ((\E key \in OwnKeys : OwnInsert(key) \/ OwnRemove(key)) =>
              /\ own'.drops = own.drops
              /\ last'.ret.tag \in {"Some", "Err"} =>
                     /\ last'.ret.v \in own'.held
                     /\ last'.ret.v \notin LiveValues(slots', capacity', 0))
       /\ (OwnMapDrop =>
              /\ own'.drops = drop_values(own.drops, LiveValues(slots, capacity, 0))
              /\ own'.held = own.held
              /\ \A t \in Created :
                     own'.drops[t] = IF t \in own.held THEN 0 ELSE 1)]_vars

\* C12's case: the map was dropped at capacity 4 or more with a live value,
\* after a value had gone back to the caller and been dropped by it; every
\* value made is destroyed.
C12_Witness ==
    /\ own.map = "dropped"
    /\ last.op = "drop"
    /\ capacity >= 4
    /\ own.next = MaxTokens
    /\ own.held = {}
    /\ Cardinality(LiveValues(slots, capacity, 0)) \in 1 .. MaxTokens - 1
    /\ \A t \in Tokens : own.drops[t] = 1

\* C14: when a drain sequence reports its end, it has yielded every entry
\* that was live when drain was called, each once and with its value now
\* the caller's; every slot is vacant, the capacity is what it was, and the
\* map's drop would destroy nothing; no value is destroyed twice.
C14_DrainToExhaustion ==
    [][(OwnDrainNext /\ last'.ret = None) =>
          /\ Len(own'.seen) = Cardinality(own.snap.pairs)
          /\ PairsOf(own'.seen) = own.snap.pairs
          /\ \A p \in own.snap.pairs :
                 \/ p[2] \in own'.held /\ own'.drops[p[2]] = 0
                 \/ p[2] \notin own'.held /\ own'.drops[p[2]] = 1
          /\ \A idx \in DOMAIN slots' : slots'[idx] = VacantSlot
          /\ capacity' = own.snap.capacity
          /\ inner' = inner
          /\ map_drop(inner', capacity', slots').dropped = {}
          /\ OwnedOnce']_vars

\* C14's case: a drain sequence over three live entries has reported its
\* end.
C14_Witness ==
    /\ iter.kind = "drain"
    /\ last.op = "drain.next"
    /\ last.ret = None
    /\ Len(own.seen) = 3
    /\ capacity = 10

\* C16: into_iter runs no destructor and frees nothing; when the iterator
\* reports its end it has yielded every live entry once; when it is dropped
\* over an allocated buffer, the values it has not yielded are destroyed,
\* once, the buffer is deallocated, once, and the map's destructor has not
\* run and cannot run.
C16_IntoIter ==
    [][/\ (OwnIntoIter =>
              /\ own'.map = "forgotten"
              /\ own'.drops = own.drops
              /\ own'.frees = 0)
       /\ ((OwnIntoIterNext /\ last'.ret = None) =>
              /\ Len(own'.seen) = Cardinality(own.snap.pairs)
              /\ PairsOf(own'.seen) = own.snap.pairs)
       /\ ((OwnIntoIterDrop /\ inner = ALLOCATED) =>
              /\ own.frees = 0
              /\ own'.frees = 1
              /\ own'.map = "forgotten"
              /\ own'.drops =
                     drop_values(own.drops,
                                 {p[2] : p \in own.snap.pairs \ PairsOf(own.seen)})
              /\ \A p \in own.snap.pairs :
                     own'.drops[p[2]] = IF p[2] \in own'.held THEN 0 ELSE 1
              /\ ~ENABLED OwnMapDrop)
       /\ (own'.map = "forgotten" => OwnedOnce')]_vars

\* C16's case: a consuming iterator over three live entries was dropped
\* after it had yielded one of them.
C16_Witness ==
    /\ last.op = "into_iter.drop"
    /\ inner = ALLOCATED
    /\ Len(own.seen) = 1
    /\ Cardinality(own.snap.pairs) = 3
    /\ own.frees = 1

\* C17: iter and iter_mut start at the first slot; a step of either writes
\* nothing to the map and destroys nothing; when the sequence reports its
\* end it has yielded every live entry, each once; and it has yielded what
\* the iteration before it did, when the map was not changed in between.
C17_IterNonDestructive ==
    [][/\ ((\E kind \in {"iter", "iter_mut"} : OwnIter(kind)) =>
              /\ iter'.ptr = 0
              /\ UNCHANGED <<inner, capacity, slots>>)
       /\ (OwnIterNext =>
              /\ UNCHANGED <<inner, capacity, slots>>
              /\ own'.drops = own.drops
              /\ own'.held = own.held
              /\ OwnedByMap' = OwnedByMap)
       /\ ((OwnIterNext /\ last'.ret = None) =>
              /\ Len(own'.seen) = Cardinality(Live(slots))
              /\ PairsOf(own'.seen) = Live(slots)
              /\ Live(slots') = own.snap.pairs
              /\ capacity' = own.snap.capacity
              /\ own.prev.n > 0 => PairsOf(own'.seen) = own.prev.pairs)]_vars

\* C17's case: the third iteration in a row over three live entries, by
\* iter_mut, has reported its end.
C17_Witness ==
    /\ iter.kind = "iter_mut"
    /\ last.op = "iter.next"
    /\ last.ret = None
    /\ own.prev.n = 2
    /\ Len(own.seen) = 3

(***************************************************************************)
(* get from several threads.  NumberKeyMap is Sync, so &self goes to any   *)
(* number of threads; get runs one read of the map at a time.  rd holds,   *)
(* for each thread, where it is in get, and alone, what get would have     *)
(* returned had it run to its end at the call.  The calls that take        *)
(* &mut self run only while no thread is in get.                           *)
(***************************************************************************)

Threads == {"r1", "r2"}

RdKeys == {0, 1, 4}

RdIdle == [pc |-> "idle", key |-> MAX_KEY, idx |-> 0, alone |-> None]

\* A mutant of get_step: a hit takes the value out of the slot.
get_step_taking(in, cap, sl, r) ==
    IF r.pc = "is_null"
    THEN [r |-> [r EXCEPT !.pc = IF in = NULL THEN "idle" ELSE "index"],
          slots |-> sl, ret |-> None]
    ELSE IF r.pc = "index"
    THEN [r |-> [r EXCEPT !.pc = "slot",
                          !.idx = get_started_slot_idx_for_key(r.key, cap)],
          slots |-> sl, ret |-> None]
    ELSE [r |-> [r EXCEPT !.pc = "idle"],
          slots |-> IF sl[r.idx].key = r.key
                    THEN [sl EXCEPT ![r.idx] = VacantSlot] ELSE sl,
          ret |-> IF sl[r.idx].key = r.key THEN Some(sl[r.idx].value)
                  ELSE None]

\* One read of get by a thread at r.pc: self.inner.is_null(), then
\* key % self.capacity, then slot.key == key.  The result is the thread
\* after the read, the buffer after it, and what get returns when the
\* thread is back at "idle".
get_step(in, cap, sl, r) ==
    IF r.pc = "is_null"
    THEN [r |-> [r EXCEPT !.pc = IF in = NULL THEN "idle" ELSE "index"],
          slots |-> sl, ret |-> None]
    ELSE IF r.pc = "index"
    THEN [r |-> [r EXCEPT !.pc = "slot",
                          !.idx = get_started_slot_idx_for_key(r.key, cap)],
          slots |-> sl, ret |-> None]
    ELSE [r |-> [r EXCEPT !.pc = "idle"],
          slots |-> sl,
          ret |-> IF sl[r.idx].key = r.key THEN Some(sl[r.idx].value)
                  ELSE None]

InitRd ==
    /\ inner = NULL
    /\ capacity = 0
    /\ slots = <<>>
    /\ iter = NoIter
    /\ panic = NoPanic
    /\ rz = Unused
    /\ own = Unused
    /\ rd = [t \in Threads |-> RdIdle]
    /\ pool = Unused
    /\ last = Call("new", MAX_KEY, NoValue, None)
    /\ ExtUnused
    /\ run = NoRun

NoneInGet == \A t \in Threads : rd[t].pc = "idle"

\* A thread calls get: validate_key passes.
RdCall(t, key) ==
    /\ rd[t].pc = "idle"
    /\ validate_key(key)
    /\ rd' = [rd EXCEPT ![t] = [pc |-> "is_null", key |-> key, idx |-> 0,
                                alone |-> get(inner, capacity, slots, key)]]
    /\ UNCHANGED <<inner, capacity, slots, iter, panic, last, run, rz, own, pool, extVars>>

\* A thread in get does its next read; at the end last is the call that
\* returned.
RdStep(t) ==
    /\ rd[t].pc # "idle"
    /\ LET s == get_step(inner, capacity, slots, rd[t])
       IN  /\ slots' = s.slots
           /\ IF s.r.pc = "idle"
              THEN /\ rd' = [rd EXCEPT ![t] = RdIdle]
                   /\ last' = Call("get", rd[t].key, t, s.ret)
              ELSE /\ rd' = [rd EXCEPT ![t] = s.r]
                   /\ UNCHANGED last
    /\ UNCHANGED <<inner, capacity, iter, panic, run, rz, own, pool, extVars>>

\* insert, with no thread in get.
RdInsert(key, value) ==
    /\ NoneInGet
    /\ validate_key(key)
    /\ LET r == insert(inner, capacity, slots, key, value)
       IN  /\ r.capacity <= MaxCapacity
           /\ r.panic = NoPanic
           /\ inner' = r.inner
           /\ capacity' = r.capacity
           /\ slots' = r.slots
           /\ last' = Call("insert", key, value, r.ret)
    /\ UNCHANGED <<iter, panic, run, rz, own, rd, pool, extVars>>

\* remove, with no thread in get, on a map that has allocated.
RdRemove(key) ==
    /\ NoneInGet
    /\ validate_key(key)
    /\ inner # NULL
    /\ LET r == remove(inner, capacity, slots, key)
       IN  /\ inner' = r.inner
           /\ capacity' = r.capacity
           /\ slots' = r.slots
           /\ last' = Call("remove", key, NoValue, r.ret)
    /\ UNCHANGED <<iter, panic, run, rz, own, rd, pool, extVars>>

NextRd ==
    \/ \E t \in Threads, key \in RdKeys : RdCall(t, key)
    \/ \E t \in Threads : RdStep(t)
    \/ \E key \in RdKeys, value \in Values : RdInsert(key, value)
    \/ \E key \in RdKeys : RdRemove(key)

SpecReaders == InitRd /\ [][NextRd]_vars

\* C19: get writes nothing.  A call or a read of get by any thread, however
\* the threads' reads interleave, leaves buffer, capacity and slots as they
\* are, so that every get in progress still has the answer it would have
\* got alone, and the get that returns returns that answer.
C19_GetReadOnly ==
    [][(\E t \in Threads :
            \/ RdStep(t)
            \/ \E key \in RdKeys : RdCall(t, key)) =>
          /\ UNCHANGED <<inner, capacity, slots>>
          /\ \A t \in Threads :
                 rd'[t].pc # "idle" =>
                     get(inner', capacity', slots', rd'[t].key) = rd'[t].alone
          /\ \A t \in Threads :
                 (rd[t].pc # "idle" /\ rd'[t].pc = "idle") =>
                     /\ last'.ret = rd[t].alone
                     /\ last'.ret = get(inner, capacity, slots, rd[t].key)]_vars

\* C19's case: a thread's get returns a hit while the other thread is in
\* the middle of a get for the same key.
C19_Witness ==
    /\ last.op = "get"
    /\ last.value = "r1"
    /\ last.ret.tag = "Some"
    /\ rd["r1"].pc = "idle"
    /\ rd["r2"].pc = "slot"
    /\ rd["r2"].key = last.key
    /\ capacity >= 4

(***************************************************************************)
(* The pool of the doc example: POOLS is a map from a buffer length to a   *)
(* Mutex<Vec<Box<[u8]>>> behind a RwLock.  The map's values are the names  *)
(* of the vectors, pool.vecs holds what is in each, buffers are numbered   *)
(* in the order they are made and pool.lens holds their lengths.  A        *)
(* statement that locks a vector, pushes or pops, and unlocks is one step. *)
(***************************************************************************)

MaxBuffers == 3

PoolThreads == {"p1", "p2"}

PoolSizes == {1, 4}

VecNames == <<"v1", "v2", "v3", "v4", "v5", "v6">>

VecIdx(name) == CHOOSE n \in 1 .. Len(VecNames) : VecNames[n] = name

NoBuf == 0

PoolIdle == [pc |-> "idle", buf |-> NoBuf, size |-> 0, v |-> 0]

\* v.lock().unwrap().push(buf)
vec_push(vecs, v, buf) == [vecs EXCEPT ![v] = Append(@, buf)]

\* v.lock().unwrap().pop()
vec_pop(vecs, v) ==
    IF vecs[v] = <<>> THEN [vecs |-> vecs, ret |-> NoBuf]
    ELSE [vecs |-> [vecs EXCEPT ![v] = SubSeq(@, 1, Len(@) - 1)],
          ret |-> vecs[v][Len(vecs[v])]]

\* A mutant of put_rejected: the vector insert handed back is dropped with
\* the buffer in it.
put_rejected_dropping(vecs, v, target) ==
    [vecs EXCEPT ![v] = <<>>]

\* The Err branch of put_to_pool: the buffer is popped from the vector that
\* insert handed back, v, and pushed to the vector found in the map,
\* target; v is dropped at the end of the block, with what is left in it.
put_rejected(vecs, v, target) ==
    LET p == vec_pop(vecs, v)
    IN  [vec_push(p.vecs, target, p.ret) EXCEPT ![v] = <<>>]

InitPool ==
    /\ inner = NULL
    /\ capacity = 0
    /\ slots = <<>>
    /\ iter = NoIter
    /\ panic = NoPanic
    /\ rz = Unused
    /\ own = Unused
    /\ rd = Unused
    /\ pool = [th |-> [t \in PoolThreads |-> PoolIdle],
               readers |-> {}, writer |-> "none",
               vecs |-> <<>>, lens |-> <<>>, out |-> {},
               ret |-> [op |-> "none", raced |-> FALSE]]
    /\ last = Call("new", MAX_KEY, NoValue, None)
    /\ ExtUnused
    /\ run = NoRun

PoolFrame == UNCHANGED <<iter, panic, last, run, rz, own, rd, extVars>>

\* The acquire_from_pool calls in progress: each may make a buffer.
Acquiring == {t \in PoolThreads : pool.th[t].pc \in {"acq_read", "acq_get", "acq_pop"}}

\* put_to_pool(buf) is called with a buffer that is out of the pool.
PoolPutCall(t, buf) ==
    /\ pool.th[t].pc = "idle"
    /\ buf \in pool.out
    /\ pool' = [pool EXCEPT !.out = @ \ {buf},
                            !.th[t] = [pc |-> "put_read", buf |-> buf,
                                       size |-> pool.lens[buf], v |-> 0]]
    /\ UNCHANGED <<inner, capacity, slots>>
    /\ PoolFrame

\* acquire_from_pool(size) is called.
PoolAcquireCall(t, size) ==
    /\ pool.th[t].pc = "idle"
    /\ Len(pool.lens) + Cardinality(Acquiring) < MaxBuffers
    /\ pool' = [pool EXCEPT !.th[t] = [pc |-> "acq_read", buf |-> NoBuf,
                                       size |-> size, v |-> 0]]
    /\ UNCHANGED <<inner, capacity, slots>>
    /\ PoolFrame

\* POOLS.read().unwrap()
PoolReadLock(t) ==
    /\ pool.th[t].pc \in {"put_read", "acq_read"}
    /\ pool.writer = "none"
    /\ pool' = [pool EXCEPT !.readers = @ \cup {t},
                            !.th[t].pc = IF @ = "put_read" THEN "put_get"
                                         ELSE "acq_get"]
    /\ UNCHANGED <<inner, capacity, slots>>
    /\ PoolFrame

\* read_pool.get(buf.len()), POOLS.read().unwrap().get(size)
PoolGet(t) ==
    /\ pool.th[t].pc \in {"put_get", "acq_get"}
    /\ LET r == get(inner, capacity, slots, pool.th[t].size)
       IN  pool' = [pool EXCEPT
                       !.th[t].v = IF r.tag = "Some" THEN VecIdx(r.v) ELSE 0,
                       !.th[t].pc = IF pool.th[t].pc = "put_get"
                                    THEN (IF r.tag = "Some" THEN "put_push"
                                          ELSE "put_drop_read")
                                    ELSE "acq_pop"]
    /\ UNCHANGED <<inner, capacity, slots>>
    /\ PoolFrame

\* v.lock().unwrap().push(buf); return
PoolPush(t) ==
    /\ pool.th[t].pc = "put_push"
    /\ pool' = [pool EXCEPT !.vecs = vec_push(@, pool.th[t].v, pool.th[t].buf),
                            !.th[t].pc = "put_ret"]
    /\ UNCHANGED <<inner, capacity, slots>>
    /\ PoolFrame

\* v.lock().unwrap().pop().unwrap_or_else(...), or the else branch: a new
\* buffer of the size asked for.
PoolPop(t) ==
    /\ pool.th[t].pc = "acq_pop"
    /\ LET v == pool.th[t].v
           p == IF v = 0 THEN [vecs |-> pool.vecs, ret |-> NoBuf]
                ELSE vec_pop(pool.vecs, v)
       IN  IF p.ret # NoBuf
           THEN pool' = [pool EXCEPT !.vecs = p.vecs,
                                     !.th[t].buf = p.ret,
                                     !.th[t].pc = "acq_ret"]
           ELSE pool' = [pool EXCEPT !.lens = Append(@, pool.th[t].size),
                                     !.th[t].buf = Len(pool.lens) + 1,
                                     !.th[t].pc = "acq_ret"]
    /\ UNCHANGED <<inner, capacity, slots>>
    /\ PoolFrame

\* The read guard is dropped: by drop(read_pool), or at the return of
\* put_to_pool or of acquire_from_pool, which hands its buffer out.
PoolReadUnlock(t) ==
    /\ pool.th[t].pc \in {"put_drop_read", "put_ret", "acq_ret"}
    /\ pool' = [pool EXCEPT
                   !.readers = @ \ {t},
                   !.out = IF pool.th[t].pc = "acq_ret"
                           THEN @ \cup {pool.th[t].buf} ELSE @,
                   !.ret = IF pool.th[t].pc = "put_drop_read" THEN @
                           ELSE [op |-> IF pool.th[t].pc = "put_ret"
                                        THEN "put_to_pool"
                                        ELSE "acquire_from_pool",
                                 raced |-> FALSE],
                   !.th[t] = IF pool.th[t].pc = "put_drop_read"
                             THEN [@ EXCEPT !.pc = "put_write"]
                             ELSE PoolIdle]
    /\ UNCHANGED <<inner, capacity, slots>>
    /\ PoolFrame

\* POOLS.write().unwrap()
PoolWriteLock(t) ==
    /\ pool.th[t].pc = "put_write"
    /\ pool.writer = "none"
    /\ pool.readers = {}
    /\ pool' = [pool EXCEPT !.writer = t, !.th[t].pc = "put_insert"]
    /\ UNCHANGED <<inner, capacity, slots>>
    /\ PoolFrame

\* write_pool.insert(buf.len(), Mutex::new(vec![buf]))
PoolInsert(t) ==
    /\ pool.th[t].pc = "put_insert"
    /\ LET v == Len(pool.vecs) + 1
           r == insert(inner, capacity, slots, pool.th[t].size, VecNames[v])
       IN  /\ inner' = r.inner
           /\ capacity' = r.capacity
           /\ slots' = r.slots
           /\ pool' = [pool EXCEPT
                          !.vecs = Append(@, <<pool.th[t].buf>>),
                          !.th[t].v = v,
                          !.th[t].pc = IF r.ret.tag = "Err" THEN "put_err"
                                       ELSE "put_unlock"]
    /\ PoolFrame

\* if let Err(mut v) = res { ... }
PoolRejected(t) ==
    /\ pool.th[t].pc = "put_err"
    /\ LET r == get(inner, capacity, slots, pool.th[t].size)
       IN  /\ r.tag = "Some"
           /\ pool' = [pool EXCEPT
                          !.vecs = put_rejected(@, pool.th[t].v, VecIdx(r.v)),
                          !.ret = [@ EXCEPT !.raced = TRUE],
                          !.th[t].pc = "put_unlock"]
    /\ UNCHANGED <<inner, capacity, slots>>
    /\ PoolFrame

\* put_to_pool returns and the write guard is dropped.
PoolWriteUnlock(t) ==
    /\ pool.th[t].pc = "put_unlock"
    /\ pool' = [pool EXCEPT !.writer = "none",
                            !.ret = [op |-> "put_to_pool",
                                     raced |-> pool.ret.raced],
                            !.th[t] = PoolIdle]
    /\ UNCHANGED <<inner, capacity, slots>>
    /\ PoolFrame

NextPool ==
    \/ \E t \in PoolThreads, buf \in 1 .. MaxBuffers : PoolPutCall(t, buf)
    \/ \E t \in PoolThreads, size \in PoolSizes : PoolAcquireCall(t, size)
    \/ \E t \in PoolThreads : PoolReadLock(t)
    \/ \E t \in PoolThreads : PoolGet(t)
    \/ \E t \in PoolThreads : PoolPush(t)
    \/ \E t \in PoolThreads : PoolPop(t)
    \/ \E t \in PoolThreads : PoolReadUnlock(t)
    \/ \E t \in PoolThreads : PoolWriteLock(t)
    \/ \E t \in PoolThreads : PoolInsert(t)
    \/ \E t \in PoolThreads : PoolRejected(t)
    \/ \E t \in PoolThreads : PoolWriteUnlock(t)

SpecPool == InitPool /\ [][NextPool]_vars

\* How many times buf is in the sequence seq.
Times(seq, buf) == Cardinality({n \in 1 .. Len(seq) : seq[n] = buf})

\* The vector the map holds under the key size, 0 when there is none.
PoolOfIn(in, cap, sl, size) ==
    LET r == get(in, cap, sl, size)
    IN  IF r.tag = "Some" THEN VecIdx(r.v) ELSE 0

PoolOf(size) == PoolOfIn(inner, capacity, slots, size)

\* The places a buffer is in: the vectors, once for each time it is there,
\* the calls that have it in hand and not in a vector, and the callers.
Places(buf) ==
    LET inVecs == {<<v, n>> \in (1 .. Len(pool.vecs)) \X (1 .. MaxBuffers) :
                       n <= Len(pool.vecs[v]) /\ pool.vecs[v][n] = buf}
        inHand == {t \in PoolThreads :
                       /\ pool.th[t].buf = buf
                       /\ pool.th[t].pc \in {"put_read", "put_get", "put_push",
                                             "put_drop_read", "put_write",
                                             "put_insert", "acq_ret"}}
    IN  Cardinality(inVecs) + Cardinality(inHand)
        + (IF buf \in pool.out THEN 1 ELSE 0)

\* C20: in the pool pattern no buffer is lost or duplicated.  At every step
\* every buffer made is in exactly one place; a vector that the map holds
\* under a key holds only buffers of that length; and when put_to_pool
\* has done its last statement before it returns, be it the push under the
\* read lock, the insert or the push after its insert was rejected as a
\* duplicate, its buffer is once in the vector the map holds under the
\* buffer's length and in no other vector.
C20_PoolKeepsBuffers ==
    [][/\ \A buf \in 1 .. Len(pool'.lens) : Places(buf)' = 1
       /\ \A size \in PoolSizes :
              PoolOf(size)' # 0 =>
                  \A n \in 1 .. Len(pool'.vecs[PoolOf(size)']) :
                      pool'.lens[pool'.vecs[PoolOf(size)'][n]] = size
       /\ \A t \in PoolThreads :
              (/\ pool.th[t].pc \in {"put_push", "put_insert", "put_err"}
               /\ pool'.th[t].pc \in {"put_ret", "put_unlock"}) =>
                  LET buf == pool.th[t].buf
                      home == PoolOfIn(inner', capacity', slots', pool.lens[buf])
                  IN  /\ home # 0
                      /\ Times(pool'.vecs[home], buf) = 1
                      /\ \A v \in 1 .. Len(pool'.vecs) :
                             v # home => Times(pool'.vecs[v], buf) = 0]_vars

\* C20's case: put_to_pool has returned after its insert was rejected as a
\* duplicate, two threads having raced to make the pool for one length, and
\* both their buffers are in that pool.
C20_Witness ==
    /\ pool.ret.op = "put_to_pool"
    /\ pool.ret.raced
    /\ \A t \in PoolThreads : pool.th[t].pc = "idle"
    /\ \E size \in PoolSizes :
           /\ PoolOf(size) # 0
           /\ Len(pool.vecs[PoolOf(size)]) = 2

(***************************************************************************)
(* C21..C30                                                                *)
(***************************************************************************)

(***************************************************************************)
(* The allocator.  alloc() answers with a block or, when there is no       *)
(* memory, with the null pointer.  insert_first and slow_insert use the    *)
(* answer as it comes.  A write through the null pointer is undefined      *)
(* behaviour: the process is killed by the write, or it goes on.           *)
(***************************************************************************)

AllocAnswers == {"block", "null"}

UbOutcomes == {"killed", "goes_on"}

Segfault == "killed by a write through the null pointer"

NullToInsertOrFail == "null pointer is provided to insert_or_fail"

\* alloc(layout).cast()
alloc(answer) == IF answer = "block" THEN ALLOCATED ELSE NULL

\* insert_first with the pointer alloc gave: inner.write(Slot { key, value }),
\* then self.inner = inner and self.capacity = 1.  null_writes is the number
\* of writes made through a null pointer.
insert_first_at(ptr, key, value) ==
    [inner |-> ptr, capacity |-> 1,
     slots |-> [i \in {0} |-> Slot(key, value)],
     ret |-> Ok, null_writes |-> IF ptr = NULL THEN 1 ELSE 0]

\* The loop `for i in 0..new_capacity` of slow_insert, which presets the
\* keys of the candidate: the number of its writes through a null pointer.
preset_null_writes(new_inner, new_capacity) ==
    IF new_inner = NULL THEN new_capacity ELSE 0

MemIdle == [pc |-> "idle", key |-> MAX_KEY, value |-> NoValue,
            new_capacity |-> 0, failed |-> FALSE, null_writes |-> 0]

InitAlloc ==
    /\ inner = NULL
    /\ capacity = 0
    /\ slots = <<>>
    /\ iter = NoIter
    /\ panic = NoPanic
    /\ rz = Unused
    /\ own = Unused
    /\ rd = Unused
    /\ pool = Unused
    /\ mem = MemIdle
    /\ vq = Unused
    /\ aq = Unused
    /\ clk = Unused
    /\ grow = Unused
    /\ last = Call("new", MAX_KEY, NoValue, None)
    /\ run = NoRun

AllocFrame == UNCHANGED <<iter, run, rz, own, rd, pool, vq, aq, clk, grow>>

\* insert on a map that never allocated: insert_first, with the allocator's
\* answer and, when the write goes through null, what becomes of it.
AllocInsertFirst(key, value, answer, outcome) ==
    /\ panic = NoPanic
    /\ mem.pc = "idle"
    /\ ~mem.failed
    /\ validate_key(key)
    /\ inner = NULL
    /\ LET r == insert_first_at(alloc(answer), key, value)
       IN  IF r.null_writes = 0
           THEN /\ outcome = "goes_on"
                /\ inner' = r.inner
                /\ capacity' = r.capacity
                /\ slots' = r.slots
                /\ last' = Call("insert", key, value, r.ret)
                /\ UNCHANGED <<mem, panic>>
           ELSE /\ mem' = [mem EXCEPT !.failed = TRUE,
                                      !.null_writes = r.null_writes]
                /\ IF outcome = "killed"
                   THEN /\ panic' = Segfault
                        /\ UNCHANGED <<inner, capacity, slots, last>>
                   ELSE /\ inner' = r.inner
                        /\ capacity' = r.capacity
                        /\ slots' = r.slots
                        /\ last' = Call("insert", key, value, r.ret)
                        /\ UNCHANGED panic
    /\ AllocFrame

\* insert on an allocated map, up to the call of slow_insert.
AllocInsert(key, value) ==
    /\ panic = NoPanic
    /\ mem.pc = "idle"
    /\ ~mem.failed
    /\ validate_key(key)
    /\ inner # NULL
    /\ LET res == insert_or_fail(slots, capacity, key, value)
       IN  IF res.res = "Ok"
           THEN /\ slots' = res.buf
                /\ last' = Call("insert", key, value, Ok)
                /\ UNCHANGED <<inner, capacity, mem>>
           ELSE /\ greater_capacity(capacity) <= MaxCapacity
                /\ mem' = [mem EXCEPT !.pc = "allocate", !.key = key,
                                      !.value = value,
                                      !.new_capacity = greater_capacity(capacity)]
                /\ UNCHANGED <<inner, capacity, slots, last>>
    /\ UNCHANGED panic
    /\ AllocFrame

\* One pass of the 'allocate loop, with the allocator's answer.  On null the
\* preset loop writes through it; a process that goes on comes to the
\* assertion at the head of insert_or_fail.
AllocPass(answer, outcome) ==
    /\ panic = NoPanic
    /\ mem.pc = "allocate"
    /\ LET new_inner == alloc(answer)
           p == allocate_pass(slots, capacity, mem.key, mem.value, mem.new_capacity)
       IN  IF new_inner # NULL
           THEN /\ outcome = "goes_on"
                /\ inner' = p.inner
                /\ capacity' = p.capacity
                /\ slots' = p.slots
                /\ panic' = p.panic
                /\ IF p.outcome = "retry"
                   THEN /\ mem' = [mem EXCEPT !.new_capacity = greater_capacity(@)]
                        /\ UNCHANGED last
                   ELSE /\ mem' = MemIdle
                        /\ last' = Call("insert", mem.key, mem.value, p.ret)
           ELSE /\ mem' = [mem EXCEPT
                              !.failed = TRUE,
                              !.null_writes =
                                  preset_null_writes(new_inner, mem.new_capacity)]
                /\ panic' = IF outcome = "killed" THEN Segfault
                            ELSE assert_hint(new_inner # NULL, NullToInsertOrFail)
                /\ UNCHANGED <<inner, capacity, slots, last>>
    /\ AllocFrame

AllocRemove(key) ==
    /\ panic = NoPanic
    /\ mem.pc = "idle"
    /\ ~mem.failed
    /\ validate_key(key)
    /\ inner # NULL
    /\ LET r == remove(inner, capacity, slots, key)
       IN  /\ inner' = r.inner
           /\ capacity' = r.capacity
           /\ slots' = r.slots
           /\ panic' = r.panic
           /\ last' = Call("remove", key, NoValue, r.ret)
    /\ UNCHANGED mem
    /\ AllocFrame

NextAlloc ==
    \/ \E key \in Keys, value \in Values, answer \in AllocAnswers,
          outcome \in UbOutcomes : AllocInsertFirst(key, value, answer, outcome)
    \/ \E key \in Keys, value \in Values : AllocInsert(key, value)
    \/ \E answer \in AllocAnswers, outcome \in UbOutcomes : AllocPass(answer, outcome)
    \/ \E key \in Keys : AllocRemove(key)

SpecAlloc == InitAlloc /\ [][NextAlloc]_vars

\* C21: when the allocator has answered with null, the process has aborted,
\* no slot was written through the null pointer, and the map has not taken
\* the null pointer for its buffer.
C21_AllocFailureAborts ==
    mem.failed =>
        /\ panic # NoPanic
        /\ mem.null_writes = 0
        /\ ~(inner = NULL /\ capacity > 0)

\* C22: lifecycle.  inner is null exactly when capacity is 0; the first
\* insert into a map that never allocated leaves a buffer of one slot that
\* holds the entry; and no call makes an allocated map unallocated again,
\* remove, clear and the drain sequence included, whether or not an entry
\* is left.
C22_Lifecycle ==
    [][/\ (inner = NULL) <=> (capacity = 0)
       /\ (inner' = NULL) <=> (capacity' = 0)
       /\ (inner # NULL) => (inner' # NULL /\ capacity' >= capacity)
       /\ (inner = NULL /\ inner' # NULL) =>
              /\ last'.op = "insert"
              /\ last'.ret = Ok
              /\ capacity' = 1
              /\ DOMAIN slots' = {0}
              /\ slots'[0] = Slot(last'.key, last'.value)
       /\ (inner = NULL /\ last'.op = "insert" /\ panic' = NoPanic) =>
              inner' # NULL]_vars

\* C22's case: a drain sequence has taken the last entry out of a map that
\* had grown to capacity 4 or more: the map is allocated and holds nothing.
C22_Witness ==
    /\ inner = ALLOCATED
    /\ capacity >= 4
    /\ Live(slots) = {}
    /\ last.op = "drain.next"
    /\ last.ret.tag = "Some"

(***************************************************************************)
(* VecQueue (src/src/vec_queue.rs): a ring over a buffer whose capacity is *)
(* a power of two.  head and tail are usize counters that wrap at the      *)
(* word's end; a physical index is a counter masked with capacity - 1.     *)
(* vq.q is the struct with the buffer behind ptr; a slot that was never    *)
(* written, or whose value was moved out by a read, holds NoValue.         *)
(***************************************************************************)

\* usize, as everywhere here, has 16 bits.
WordMod == MAX_KEY + 1

\* The longest queue explored.
MaxQueueLen == 5

\* How far head and tail are let go from where they started.
MaxDrift == 3

ReserveArgs == {0, 1, 6}

wrapping_add(a, b) == (a + b) % WordMod

wrapping_sub(a, b) == (a - b + WordMod) % WordMod

\* a & b on machine words.
RECURSIVE bit_and(_, _)
bit_and(a, b) ==
    IF a = 0 \/ b = 0 THEN 0
    ELSE (a % 2) * (b % 2) + 2 * bit_and(a \div 2, b \div 2)

get_mask_for_capacity(cap) == cap - 1

\* VecQueue::allocate: a block of cap slots, none of them written.
vq_allocate(cap) == [i \in 0 .. cap - 1 |-> NoValue]

new_const ==
    [ptr |-> NULL, head |-> 0, tail |-> 0, capacity |-> 0, mask |-> 0,
     buf |-> <<>>]

vq_len(q) == wrapping_sub(q.tail, q.head)

vq_is_empty(q) == q.head = q.tail

vq_get_physical_index(q, index) == bit_and(index, q.mask)

\* ptr::copy(src, dst, count) between two buffers, as slot indices.
ptr_copy(from, src, to, dst, count) ==
    [i \in DOMAIN to |->
        IF i >= dst /\ i < dst + count THEN from[src + (i - dst)] ELSE to[i]]

extend_from_zero(q, cap) ==
    [q EXCEPT !.mask = get_mask_for_capacity(cap), !.ptr = ALLOCATED,
              !.buf = vq_allocate(cap), !.capacity = cap]

NotPowerOfTwo == "Capacity must be a power of two"

NotGreater == "assertion failed: capacity > self.capacity"

\* A mutant of extend_to: a ring that wraps is copied up to the end of the
\* old buffer only.
extend_to_first_part(q, cap) ==
    IF q.capacity = 0 /\ cap = 0
    THEN [q |-> extend_from_zero(q, 4), panic |-> NoPanic]
    ELSE IF ~is_power_of_two(cap) THEN [q |-> q, panic |-> NotPowerOfTwo]
    ELSE IF ~(cap > q.capacity) THEN [q |-> q, panic |-> NotGreater]
    ELSE LET len == vq_len(q)
             phys_head == vq_get_physical_index(q, q.head)
             phys_tail == vq_get_physical_index(q, q.tail)
             new_buf ==
                 IF phys_head < phys_tail
                 THEN ptr_copy(q.buf, phys_head, vq_allocate(cap), 0, len)
                 ELSE ptr_copy(q.buf, phys_head, vq_allocate(cap), 0,
                               q.capacity - phys_head)
         IN  [q |-> [ptr |-> ALLOCATED, head |-> 0, tail |-> len,
                     capacity |-> cap, mask |-> get_mask_for_capacity(cap),
                     buf |-> new_buf],
              panic |-> NoPanic]

\* extend_to: the queue with a buffer of cap slots, its elements copied to
\* the front of it in order, or the panic of one of the two assertions.
extend_to(q, cap) ==
    IF q.capacity = 0 /\ cap = 0
    THEN [q |-> extend_from_zero(q, 4), panic |-> NoPanic]
    ELSE IF ~is_power_of_two(cap) THEN [q |-> q, panic |-> NotPowerOfTwo]
    ELSE IF ~(cap > q.capacity) THEN [q |-> q, panic |-> NotGreater]
    ELSE LET len == vq_len(q)
             phys_head == vq_get_physical_index(q, q.head)
             phys_tail == vq_get_physical_index(q, q.tail)
             new_buf ==
                 IF phys_head < phys_tail
                 THEN ptr_copy(q.buf, phys_head, vq_allocate(cap), 0, len)
                 ELSE ptr_copy(q.buf, 0,
                               ptr_copy(q.buf, phys_head, vq_allocate(cap), 0,
                                        q.capacity - phys_head),
                               q.capacity - phys_head, phys_tail)
         IN  [q |-> [ptr |-> ALLOCATED, head |-> 0, tail |-> len,
                     capacity |-> cap, mask |-> get_mask_for_capacity(cap),
                     buf |-> new_buf],
              panic |-> NoPanic]

\* The queue push and push_priority_value write to: extended when full.
vq_room(q) ==
    IF vq_len(q) = q.capacity THEN extend_to(q, (q.capacity * 2) % WordMod)
    ELSE [q |-> q, panic |-> NoPanic]

vq_push(q, value) ==
    LET r == vq_room(q)
        index == vq_get_physical_index(r.q, r.q.tail)
    IN  IF r.panic # NoPanic THEN r
        ELSE [q |-> [r.q EXCEPT !.buf[index] = value,
                                !.tail = wrapping_add(@, 1)],
              panic |-> NoPanic]

push_priority_value(q, value) ==
    LET r == vq_room(q)
        head == wrapping_sub(r.q.head, 1)
        index == bit_and(head, r.q.mask)
    IN  IF r.panic # NoPanic THEN r
        ELSE [q |-> [r.q EXCEPT !.head = head, !.buf[index] = value],
              panic |-> NoPanic]

vq_pop(q) ==
    IF vq_is_empty(q) THEN [q |-> q, ret |-> None]
    ELSE LET index == vq_get_physical_index(q, q.head)
         IN  [q |-> [q EXCEPT !.head = wrapping_add(@, 1),
                              !.buf[index] = NoValue],
              ret |-> Some(q.buf[index])]

pop_less_priority_value(q) ==
    IF vq_is_empty(q) THEN [q |-> q, ret |-> None]
    ELSE LET tail == wrapping_sub(q.tail, 1)
             index == bit_and(tail, q.mask)
         IN  [q |-> [q EXCEPT !.tail = tail, !.buf[index] = NoValue],
              ret |-> Some(q.buf[index])]

\* The elements of the queue, front to back.
Content(q) ==
    [n \in 1 .. vq_len(q) |->
        q.buf[vq_get_physical_index(q, wrapping_add(q.head, n - 1))]]

\* The distance of a counter from where the queue started, signed.
Drift(x) ==
    LET d == wrapping_sub(x, vq.start)
    IN  IF d < WordMod \div 2 THEN d ELSE d - WordMod

VqFrame ==
    UNCHANGED <<inner, capacity, slots, iter, panic, last, run,
                rz, own, rd, pool, mem, aq, clk, grow>>

\* new_const(), or a queue that has grown to four slots and whose counters
\* have come near the word's end, push by push and pop by pop.
InitVq ==
    /\ inner = NULL
    /\ capacity = 0
    /\ slots = <<>>
    /\ iter = NoIter
    /\ panic = NoPanic
    /\ rz = Unused
    /\ own = Unused
    /\ rd = Unused
    /\ pool = Unused
    /\ mem = Unused
    /\ \E start \in {0, WordMod - 2} :
           vq = [q |-> IF start = 0 THEN new_const
                       ELSE [ptr |-> ALLOCATED, head |-> start, tail |-> start,
                             capacity |-> 4, mask |-> 3, buf |-> vq_allocate(4)],
                 start |-> start, pc |-> "idle", op |-> "new", ret |-> None,
                 panic |-> NoPanic, needed |-> 0, new_capacity |-> 0,
                 before |-> <<>>]
    /\ aq = Unused
    /\ clk = Unused
    /\ grow = Unused
    /\ last = Call("new", MAX_KEY, NoValue, None)
    /\ run = NoRun

VqCanCall == vq.pc = "idle" /\ vq.panic = NoPanic

VqPush(value) ==
    /\ VqCanCall
    /\ vq_len(vq.q) < MaxQueueLen
    /\ Drift(vq.q.tail) < MaxDrift
    /\ LET r == vq_push(vq.q, value)
       IN  vq' = [vq EXCEPT !.q = r.q, !.panic = r.panic, !.op = "push",
                            !.ret = None, !.needed = 0, !.before = <<>>,
                            !.new_capacity = 0]
    /\ VqFrame

VqPushPriorityValue(value) ==
    /\ VqCanCall
    /\ vq_len(vq.q) < MaxQueueLen
    /\ Drift(vq.q.head) > -MaxDrift
    /\ LET r == push_priority_value(vq.q, value)
       IN  vq' = [vq EXCEPT !.q = r.q, !.panic = r.panic,
                            !.op = "push_priority_value", !.ret = None,
                            !.needed = 0, !.before = <<>>,
                            !.new_capacity = 0]
    /\ VqFrame

VqPop ==
    /\ VqCanCall
    /\ Drift(vq.q.head) < MaxDrift
    /\ LET r == vq_pop(vq.q)
       IN  vq' = [vq EXCEPT !.q = r.q, !.op = "pop", !.ret = r.ret,
                            !.needed = 0, !.before = <<>>,
                            !.new_capacity = 0]
    /\ VqFrame

VqPopLessPriorityValue ==
    /\ VqCanCall
    /\ Drift(vq.q.tail) > -MaxDrift
    /\ LET r == pop_less_priority_value(vq.q)
       IN  vq' = [vq EXCEPT !.q = r.q, !.op = "pop_less_priority_value",
                            !.ret = r.ret, !.needed = 0, !.before = <<>>,
                            !.new_capacity = 0]
    /\ VqFrame

\* reserve(additional) up to its loop: it returns at once when the capacity
\* is enough.
VqReserve(additional) ==
    /\ VqCanCall
    /\ LET needed == vq_len(vq.q) + additional
       IN  vq' = [vq EXCEPT !.op = "reserve", !.ret = None,
                            !.needed = needed,
                            !.before = Content(vq.q),
                            !.new_capacity = (vq.q.capacity * 2) % WordMod,
                            !.pc = IF needed <= vq.q.capacity THEN "idle"
                                   ELSE "reserve"]
    /\ VqFrame

\* One test of `while needed > new_capacity`: the body, or the call of
\* extend_to after the loop and the return.
VqReserveStep ==
    /\ vq.pc = "reserve"
    /\ vq.panic = NoPanic
    /\ IF vq.needed > vq.new_capacity
       THEN vq' = [vq EXCEPT !.new_capacity = (@ * 2) % WordMod]
       ELSE LET r == extend_to(vq.q, vq.new_capacity)
            IN  vq' = [vq EXCEPT !.q = r.q, !.panic = r.panic, !.pc = "idle"]
    /\ VqFrame

NextVq ==
    \/ \E value \in Values : VqPush(value)
    \/ \E value \in Values : VqPushPriorityValue(value)
    \/ VqPop
    \/ VqPopLessPriorityValue
    \/ \E additional \in ReserveArgs : VqReserve(additional)
    \/ VqReserveStep

\* reserve is straight-line code: its loop goes on when it can.
SpecVecQueue == InitVq /\ [][NextVq]_vars /\ WF_vars(VqReserveStep)

\* C23: VecQueue is a double-ended sequence.  With Content the elements
\* front to back: push appends, push_priority_value prepends, pop takes
\* and returns the first element, pop_less_priority_value the last, both
\* return None on an empty queue and leave it as it is, and len is the
\* number of elements; whether the buffer grows in the call or the
\* counters wrap.
C23_VecQueueIsDeque ==
    [][/\ vq_len(vq'.q) = Len(Content(vq'.q))
       /\ vq_len(vq'.q) <= vq'.q.capacity
       /\ vq'.panic = NoPanic
       /\ \A value \in Values :
              /\ VqPush(value) => Content(vq'.q) = Append(Content(vq.q), value)
              /\ VqPushPriorityValue(value) =>
                     Content(vq'.q) = <<value>> \o Content(vq.q)
       /\ VqPop =>
              IF Content(vq.q) = <<>>
              THEN vq'.ret = None /\ vq'.q = vq.q
              ELSE /\ vq'.ret = Some(Head(Content(vq.q)))
                   /\ Content(vq'.q) = Tail(Content(vq.q))
       /\ VqPopLessPriorityValue =>
              IF Content(vq.q) = <<>>
              THEN vq'.ret = None /\ vq'.q = vq.q
              ELSE LET c == Content(vq.q)
                   IN  /\ vq'.ret = Some(c[Len(c)])
                       /\ Content(vq'.q) = SubSeq(c, 1, Len(c) - 1)]_vars

\* C23's case: a queue of five elements in the buffer it grew into, put at
\* the front last, whose head counter has wrapped below zero.
C23_Witness ==
    /\ vq.q.capacity = 8
    /\ vq_len(vq.q) = 5
    /\ vq.q.head > vq.q.tail
    /\ vq.op = "push_priority_value"
    /\ Content(vq.q)[1] # Content(vq.q)[2]

\* C24: reserve(additional) returns, and then the capacity is at least
\* len + additional and the elements are what they were, in order.
C24_ReserveReturns ==
    (vq.pc = "reserve") ~>
        (/\ vq.pc = "idle"
         /\ vq.q.capacity >= vq.needed
         /\ Content(vq.q) = vq.before)

(***************************************************************************)
(* ArrayQueue<T, N> (src/src/array_queue.rs): a ring in an array of N      *)
(* slots, kept as the index of the first element and the number of         *)
(* elements.  A slot of the array that was never written, or whose value   *)
(* was moved out by a read, is uninitialized: NoValue.                     *)
(***************************************************************************)

\* The const parameter N of the queues explored.
N == 4

ArrayQueue_new == [array |-> [i \in 0 .. N - 1 |-> NoValue], len |-> 0, head |-> 0]

aq_len(q) == q.len

aq_is_empty(q) == q.len = 0

to_physical_idx_from_head(q, idx) ==
    LET logical_index == q.head + idx
    IN  IF logical_index >= N THEN logical_index - N ELSE logical_index

\* slice_from_raw_parts(array.as_ptr().add(from), count): count slots of
\* the array, initialized or not.
slice_from_raw_parts(q, from, count) ==
    [n \in 1 .. count |-> q.array[from + n - 1]]

as_slices(q) ==
    LET phys_head == to_physical_idx_from_head(q, 0)
        phys_tail == to_physical_idx_from_head(q, aq_len(q))
    IN  IF phys_tail > phys_head
        THEN <<slice_from_raw_parts(q, phys_head, q.len), <<>>>>
        ELSE <<slice_from_raw_parts(q, phys_head, N - phys_head),
               slice_from_raw_parts(q, 0, phys_tail)>>

\* A mutant of push_unchecked: the slot is counted from the start of the
\* array, not from head.
push_unchecked_from_zero(q, value) ==
    [q EXCEPT !.array[q.len % N] = value, !.len = @ + 1]

push_unchecked(q, value) ==
    LET idx == to_physical_idx_from_head(q, aq_len(q))
    IN  [q EXCEPT !.array[idx] = value, !.len = @ + 1]

aq_push(q, value) ==
    IF aq_len(q) < N THEN [q |-> push_unchecked(q, value), ret |-> Ok]
    ELSE [q |-> q, ret |-> Err(value)]

push_priority_value_unchecked(q, value) ==
    LET phys_head == to_physical_idx_from_head(q, 0)
        idx == IF phys_head > 0 THEN phys_head - 1 ELSE N - 1
    IN  [q EXCEPT !.array[idx] = value, !.head = idx, !.len = @ + 1]

aq_push_priority_value(q, value) ==
    IF aq_len(q) < N
    THEN [q |-> push_priority_value_unchecked(q, value), ret |-> Ok]
    ELSE [q |-> q, ret |-> Err(value)]

aq_pop(q) ==
    IF ~aq_is_empty(q)
    THEN LET shorter == [q EXCEPT !.len = @ - 1]
             idx == q.head
         IN  [q |-> [shorter EXCEPT !.head = to_physical_idx_from_head(shorter, 1),
                                    !.array[idx] = NoValue],
              ret |-> Some(q.array[idx])]
    ELSE [q |-> q, ret |-> None]

aq_pop_less_priority_value(q) ==
    IF ~aq_is_empty(q)
    THEN LET shorter == [q EXCEPT !.len = @ - 1]
             idx == to_physical_idx_from_head(shorter, aq_len(shorter))
         IN  [q |-> [shorter EXCEPT !.array[idx] = NoValue],
              ret |-> Some(q.array[idx])]
    ELSE [q |-> q, ret |-> None]

\* The elements of the queue, front to back.
AqContent(q) ==
    [n \in 1 .. q.len |-> q.array[to_physical_idx_from_head(q, n - 1)]]

NoSlices == <<<<>>, <<>>>>

AqFrame ==
    UNCHANGED <<inner, capacity, slots, iter, panic, last, run,
                rz, own, rd, pool, mem, vq, clk, grow>>

InitAq ==
    /\ inner = NULL
    /\ capacity = 0
    /\ slots = <<>>
    /\ iter = NoIter
    /\ panic = NoPanic
    /\ rz = Unused
    /\ own = Unused
    /\ rd = Unused
    /\ pool = Unused
    /\ mem = Unused
    /\ vq = Unused
    /\ aq = [q |-> ArrayQueue_new, op |-> "new", arg |-> NoValue,
             ret |-> None, slices |-> NoSlices]
    /\ clk = Unused
    /\ grow = Unused
    /\ last = Call("new", MAX_KEY, NoValue, None)
    /\ run = NoRun

AqPush(value) ==
    /\ LET r == aq_push(aq.q, value)
       IN  aq' = [q |-> r.q, op |-> "push", arg |-> value, ret |-> r.ret,
                  slices |-> NoSlices]
    /\ AqFrame

AqPushPriorityValue(value) ==
    /\ LET r == aq_push_priority_value(aq.q, value)
       IN  aq' = [q |-> r.q, op |-> "push_priority_value", arg |-> value,
                  ret |-> r.ret, slices |-> NoSlices]
    /\ AqFrame

AqPop ==
    /\ LET r == aq_pop(aq.q)
       IN  aq' = [q |-> r.q, op |-> "pop", arg |-> NoValue, ret |-> r.ret,
                  slices |-> NoSlices]
    /\ AqFrame

AqPopLessPriorityValue ==
    /\ LET r == aq_pop_less_priority_value(aq.q)
       IN  aq' = [q |-> r.q, op |-> "pop_less_priority_value",
                  arg |-> NoValue, ret |-> r.ret, slices |-> NoSlices]
    /\ AqFrame

AqAsSlices ==
    /\ aq' = [aq EXCEPT !.op = "as_slices", !.arg = NoValue, !.ret = None,
                        !.slices = as_slices(aq.q)]
    /\ AqFrame

NextAq ==
    \/ \E value \in Values : AqPush(value)
    \/ \E value \in Values : AqPushPriorityValue(value)
    \/ AqPop
    \/ AqPopLessPriorityValue
    \/ AqAsSlices

SpecArrayQueue == InitAq /\ [][NextAq]_vars

\* C25: ArrayQueue<T, N> is a double-ended sequence bounded by N.  len is
\* the number of elements and never exceeds N; on a full queue push and
\* push_priority_value return Err(value) and leave the queue as it is,
\* otherwise they append and prepend; pop and pop_less_priority_value
\* take and return the first and the last element, None when there is
\* none; wherever head stands in the array.
C25_ArrayQueueIsBoundedDeque ==
    [][/\ aq'.q.len <= N
       /\ \A n \in 1 .. aq'.q.len : AqContent(aq'.q)[n] \in Values
       /\ \A value \in Values :
              /\ AqPush(value) =>
                     IF aq.q.len = N
                     THEN aq'.ret = Err(value) /\ aq'.q = aq.q
                     ELSE /\ aq'.ret = Ok
                          /\ AqContent(aq'.q) = Append(AqContent(aq.q), value)
              /\ AqPushPriorityValue(value) =>
                     IF aq.q.len = N
                     THEN aq'.ret = Err(value) /\ aq'.q = aq.q
                     ELSE /\ aq'.ret = Ok
                          /\ AqContent(aq'.q) = <<value>> \o AqContent(aq.q)
       /\ AqPop =>
              IF AqContent(aq.q) = <<>>
              THEN aq'.ret = None /\ aq'.q = aq.q
              ELSE /\ aq'.ret = Some(Head(AqContent(aq.q)))
                   /\ AqContent(aq'.q) = Tail(AqContent(aq.q))
       /\ AqPopLessPriorityValue =>
              IF AqContent(aq.q) = <<>>
              THEN aq'.ret = None /\ aq'.q = aq.q
              ELSE LET c == AqContent(aq.q)
                   IN  /\ aq'.ret = Some(c[Len(c)])
                       /\ AqContent(aq'.q) = SubSeq(c, 1, Len(c) - 1)]_vars

\* C25's case: a push refused by a full queue whose elements go round the
\* end of the array.
C25_Witness ==
    /\ aq.op = "push"
    /\ aq.ret.tag = "Err"
    /\ aq.q.len = N
    /\ aq.q.head > 0
    /\ AqContent(aq.q)[1] # AqContent(aq.q)[N]

\* C26: as_slices returns the occupied region: in every state of the
\* queue, the empty and the full one included, the lengths of the two
\* slices add up to len() and the first followed by the second is the
\* content, front to back.
C26_AsSlicesIsContent ==
    aq.op = "as_slices" =>
        /\ Len(aq.slices[1]) + Len(aq.slices[2]) = aq_len(aq.q)
        /\ aq.slices[1] \o aq.slices[2] = AqContent(aq.q)

(***************************************************************************)
(* OrengineInstant on unix (src/src/instant.rs): a u64 count of            *)
(* nanoseconds of the monotonic clock.  A Duration is its number of        *)
(* nanoseconds.  u64 is scaled to the word of this module and a second to  *)
(* NanosPerSec nanoseconds; an overflowing u64 operation panics in a build *)
(* with overflow checks and wraps in a build without.                      *)
(***************************************************************************)

U64 == WordMod

NanosPerSec == 1000

Builds == {"overflow-checks", "wrapping"}

SubOverflow == "attempt to subtract with overflow"

AddOverflow == "overflow when adding duration to instant"

\* The additions explored from the first reading of the clock.
MaxClockAdds == 3

ClockStarts == {0, 1, 1500}

Durations == {1, 999, 1000}

\* From<OrengineInstant> for std::time::Instant: seconds and the
\* nanoseconds of the last second.
into_std(instant) ==
    [tv_sec |-> instant \div NanosPerSec, tv_nsec |-> instant % NanosPerSec]

\* From<std::time::Instant> for OrengineInstant.
from_std(ts) == (ts.tv_sec * NanosPerSec + ts.tv_nsec) % U64

\* checked_duration_since: Some(self.instant - earlier.instant), the
\* subtraction being the plain one of u64.
checked_duration_since(build, self, earlier) ==
    LET other == from_std(earlier)
    IN  IF self >= other THEN [ret |-> Some(self - other), panic |-> NoPanic]
        ELSE IF build = "overflow-checks"
             THEN [ret |-> None, panic |-> SubOverflow]
             ELSE [ret |-> Some((self - other + U64) % U64), panic |-> NoPanic]

\* unwrap_or_default of the Option<Duration>: zero for None.
saturating_duration_since(build, self, earlier) ==
    LET r == checked_duration_since(build, self, earlier)
    IN  [ret |-> IF r.ret.tag = "Some" THEN r.ret.v ELSE 0, panic |-> r.panic]

duration_since(build, self, earlier) ==
    saturating_duration_since(build, self, earlier)

\* Sub<Self>: self.duration_since(other), other converted to the standard
\* Instant on the way.
instant_sub(build, self, other) == duration_since(build, self, into_std(other))

\* checked_add: None when the sum is not a u64.
instant_checked_add(self, duration) ==
    IF self + duration < U64 THEN Some(self + duration) ELSE None

ClkFrame ==
    UNCHANGED <<inner, capacity, slots, iter, panic, last, run,
                rz, own, rd, pool, mem, vq, aq, grow>>

\* Two copies of one reading of the clock, in either build.
InitClk ==
    /\ inner = NULL
    /\ capacity = 0
    /\ slots = <<>>
    /\ iter = NoIter
    /\ panic = NoPanic
    /\ rz = Unused
    /\ own = Unused
    /\ rd = Unused
    /\ pool = Unused
    /\ mem = Unused
    /\ vq = Unused
    /\ aq = Unused
    /\ \E build \in Builds, now \in ClockStarts :
           clk = [build |-> build, a |-> now, b |-> now, adds |-> 0,
                  op |-> "now", lhs |-> now, rhs |-> now, ret |-> 0,
                  panic |-> NoPanic]
    /\ grow = Unused
    /\ last = Call("new", MAX_KEY, NoValue, None)
    /\ run = NoRun

\* a + duration, Add<Duration>.
ClkAddA(duration) ==
    /\ clk.panic = NoPanic
    /\ clk.adds < MaxClockAdds
    /\ LET r == instant_checked_add(clk.a, duration)
       IN  clk' = [clk EXCEPT !.a = IF r.tag = "Some" THEN r.v ELSE @,
                              !.panic = IF r.tag = "Some" THEN NoPanic
                                        ELSE AddOverflow,
                              !.adds = @ + 1, !.op = "add",
                              !.lhs = clk.a, !.rhs = duration, !.ret = 0]
    /\ ClkFrame

\* b + duration.
ClkAddB(duration) ==
    /\ clk.panic = NoPanic
    /\ clk.adds < MaxClockAdds
    /\ LET r == instant_checked_add(clk.b, duration)
       IN  clk' = [clk EXCEPT !.b = IF r.tag = "Some" THEN r.v ELSE @,
                              !.panic = IF r.tag = "Some" THEN NoPanic
                                        ELSE AddOverflow,
                              !.adds = @ + 1, !.op = "add",
                              !.lhs = clk.b, !.rhs = duration, !.ret = 0]
    /\ ClkFrame

\* lhs - rhs, Sub<Self>.
ClkSub(lhs, rhs) ==
    /\ clk.panic = NoPanic
    /\ LET r == instant_sub(clk.build, lhs, rhs)
       IN  clk' = [clk EXCEPT !.op = "sub", !.lhs = lhs, !.rhs = rhs,
                              !.ret = r.ret, !.panic = r.panic]
    /\ ClkFrame

NextClk ==
    \/ \E duration \in Durations : ClkAddA(duration)
    \/ \E duration \in Durations : ClkAddB(duration)
    \/ ClkSub(clk.a, clk.b)
    \/ ClkSub(clk.b, clk.a)

SpecInstant == InitClk /\ [][NextClk]_vars

\* C27: a - b on two instants is the time from b to a, and zero when b is
\* later than a; it never aborts and never yields a wrapped-around
\* duration.
C27_SubSaturates ==
    clk.op = "sub" =>
        /\ clk.panic = NoPanic
        /\ clk.ret = IF clk.lhs >= clk.rhs THEN clk.lhs - clk.rhs ELSE 0

(***************************************************************************)
(* The growth policy by itself (greater_capacity, lines 191-202): applied  *)
(* to a capacity, and to its own result in turn, as slow_insert's loop     *)
(* does.  SpecGrowth starts from the capacities up to MaxGrown,            *)
(* SpecGrowthWord from those around the place where capacity * 8 leaves    *)
(* the machine word.                                                       *)
(***************************************************************************)

\* The largest capacity SpecGrowth starts from or grows to.
MaxGrown == 300

\* How far around the first overflowing capacity SpecGrowthWord starts.
EdgeSpan == 40

\* The passes of the loop that are counted; later ones count as this many.
MaxPassesCounted == 6

MulOverflow == "attempt to multiply with overflow"

\* The least capacity whose product with 8 is not a machine word.
FirstOverflowing == (MAX_KEY + 1) \div 8

EdgeStarts ==
    {c \in 1 .. MAX_KEY :
        \/ c >= FirstOverflowing - EdgeSpan /\ c <= FirstOverflowing + EdgeSpan
        \/ c = MAX_KEY}

\* greater_capacity as a build computes it: with overflow checks the
\* product panics when it leaves the word.
greater_capacity_in(build, cap) ==
    IF cap >= 16 /\ cap * 8 > MAX_KEY /\ build = "overflow-checks"
    THEN [ret |-> 0, panic |-> MulOverflow]
    ELSE [ret |-> greater_capacity(cap), panic |-> NoPanic]

GrowFrame ==
    UNCHANGED <<inner, capacity, slots, iter, panic, last, run,
                rz, own, rd, pool, mem, vq, aq, clk>>

InitGrowFrom(starts, limit) ==
    /\ inner = NULL
    /\ capacity = 0
    /\ slots = <<>>
    /\ iter = NoIter
    /\ panic = NoPanic
    /\ rz = Unused
    /\ own = Unused
    /\ rd = Unused
    /\ pool = Unused
    /\ mem = Unused
    /\ vq = Unused
    /\ aq = Unused
    /\ clk = Unused
    /\ \E build \in Builds, c \in starts :
           grow = [build |-> build, start |-> c, n |-> 0, c |-> c,
                   limit |-> limit, op |-> "new", ret |-> 0,
                   panic |-> NoPanic]
    /\ last = Call("new", MAX_KEY, NoValue, None)
    /\ run = NoRun

InitGrow == InitGrowFrom(1 .. MaxGrown, MaxGrown)

InitGrowWord == InitGrowFrom(EdgeStarts, MAX_KEY)

\* new_capacity = Self::greater_capacity(new_capacity).
GrowCall ==
    /\ grow.op # "greater_capacity"
    /\ LET r == greater_capacity_in(grow.build, grow.c)
       IN  grow' = [grow EXCEPT !.op = "greater_capacity", !.ret = r.ret,
                                !.panic = r.panic]
    /\ GrowFrame

\* The next pass of the loop takes the result as its capacity.
GrowNextPass ==
    /\ grow.op = "greater_capacity"
    /\ grow.panic = NoPanic
    /\ grow.ret >= 1
    /\ grow.ret <= grow.limit
    /\ grow' = [grow EXCEPT !.op = "pass", !.c = grow.ret, !.ret = 0,
                            !.n = IF @ < MaxPassesCounted THEN @ + 1 ELSE @]
    /\ GrowFrame

NextGrow ==
    \/ GrowCall
    \/ GrowNextPass

SpecGrowth == InitGrow /\ [][NextGrow]_vars

SpecGrowthWord == InitGrowWord /\ [][NextGrow]_vars

\* floor(8c / 7), plus one when that is a power of two, in the integers.
EightSevenths(c) ==
    LET f == (8 * c) \div 7
    IN  IF \E k \in 0 .. 16 : f = 2 ^ k THEN f + 1 ELSE f

AllAtHome(sl, cap) ==
    \A idx \in DOMAIN sl : sl[idx].key # MAX_KEY => sl[idx].key % cap = idx

\* C30: resize is all-or-nothing.  While insert tries candidate
\* capacities the map's buffer, capacity and live entries stay as they
\* are; the map changes in the one step that adopts a candidate, and the
\* buffer adopted has the candidate's capacity and holds every entry that
\* was live, each in its own slot, and besides them the new entry at most.
C30_ResizeAllOrNothing ==
    [][/\ (rz.pc = "idle" /\ rz'.pc = "allocate") =>
              UNCHANGED <<inner, capacity, slots>>
       /\ RzAttempt =>
              IF rz'.pc = "allocate" \/ panic' # NoPanic
              THEN UNCHANGED <<inner, capacity, slots>>
              ELSE /\ capacity' = rz.new_capacity
                   /\ DOMAIN slots' = 0 .. rz.new_capacity - 1
                   /\ Live(slots) \subseteq Live(slots')
                   /\ Live(slots') \subseteq
                          Live(slots) \cup {<<rz.key, rz.value>>}
                   /\ AllAtHome(slots', capacity')
                   /\ Cardinality(LiveKeys(slots')) = Cardinality(Live(slots'))]_vars

\* C30's case: a candidate was adopted after another was given up, by a
\* map that had entries to carry over.
C30_Witness ==
    /\ rz.pc = "idle"
    /\ rz.attempts >= 2
    /\ last.op = "insert"
    /\ last.ret = Ok
    /\ capacity = 10
    /\ Cardinality(LiveKeys(slots)) >= 2

(***************************************************************************)
(* The buffers of an insert.  SpecBuffers runs slow_insert's loop in two   *)
(* steps per pass, the allocation of the candidate and the rest of the     *)
(* pass, and keeps a ledger of the allocator's calls in mem: live is the   *)
(* number of buffers allocated and not deallocated, cands the number of    *)
(* them that are candidates, old_frees the number of times the current     *)
(* call deallocated the map's buffer.                                      *)
(***************************************************************************)

NoBuffers == [live |-> 0, cands |-> 0, old_frees |-> 0]

\* alloc(layout) in insert_first: the map's first buffer.
alloc_first(m) == [m EXCEPT !.live = @ + 1]

\* alloc(layout) at the head of a pass: one more candidate.
alloc_candidate(m) == [m EXCEPT !.live = @ + 1, !.cands = @ + 1]

\* A mutant of dealloc_candidate: the candidate given up is not deallocated.
dealloc_candidate_leaking(m) == m

\* dealloc(new_inner.cast(), layout) before continue 'allocate.
dealloc_candidate(m) == [m EXCEPT !.live = @ - 1, !.cands = @ - 1]

\* commit_reallocate: dealloc(self.inner, ...), and the candidate is the
\* map's buffer from here on.
commit_reallocate(m) ==
    [m EXCEPT !.live = @ - 1, !.cands = @ - 1, !.old_frees = @ + 1]

InitBuf ==
    /\ inner = NULL
    /\ capacity = 0
    /\ slots = <<>>
    /\ iter = NoIter
    /\ panic = NoPanic
    /\ rz = RzIdle(MAX_KEY, NoValue, 0)
    /\ own = Unused
    /\ rd = Unused
    /\ pool = Unused
    /\ mem = NoBuffers
    /\ vq = Unused
    /\ aq = Unused
    /\ clk = Unused
    /\ grow = Unused
    /\ last = Call("new", MAX_KEY, NoValue, None)
    /\ run = NoRun

BufFrame == UNCHANGED <<iter, run, own, rd, pool, vq, aq, clk, grow>>

\* insert up to the call of slow_insert.
BufInsert(key, value) ==
    /\ panic = NoPanic
    /\ rz.pc = "idle"
    /\ validate_key(key)
    /\ LET res == insert_or_fail(slots, capacity, key, value)
       IN  IF inner = NULL
           THEN LET r == insert_first(key, value)
                IN  /\ inner' = r.inner
                    /\ capacity' = r.capacity
                    /\ slots' = r.slots
                    /\ last' = Call("insert", key, value, r.ret)
                    /\ rz' = RzIdle(key, value, 0)
                    /\ mem' = alloc_first([mem EXCEPT !.old_frees = 0])
           ELSE IF res.res = "Ok"
           THEN /\ slots' = res.buf
                /\ last' = Call("insert", key, value, Ok)
                /\ rz' = RzIdle(key, value, 0)
                /\ mem' = [mem EXCEPT !.old_frees = 0]
                /\ UNCHANGED <<inner, capacity>>
           ELSE /\ greater_capacity(capacity) <= MaxCapacity
                /\ rz' = [pc |-> "allocate", key |-> key, value |-> value,
                          new_capacity |-> greater_capacity(capacity),
                          attempts |-> 0]
                /\ mem' = [mem EXCEPT !.old_frees = 0]
                /\ UNCHANGED <<inner, capacity, slots, last>>
    /\ UNCHANGED panic
    /\ BufFrame

\* The head of a pass: the candidate buffer is allocated.
BufAlloc ==
    /\ panic = NoPanic
    /\ rz.pc = "allocate"
    /\ rz' = [rz EXCEPT !.pc = "copy"]
    /\ mem' = alloc_candidate(mem)
    /\ UNCHANGED <<inner, capacity, slots, panic, last>>
    /\ BufFrame

\* The rest of the pass: the copy, the insert of the new entry, and the
\* deallocation of the candidate or of the map's old buffer.
BufCopy ==
    /\ panic = NoPanic
    /\ rz.pc = "copy"
    /\ LET p == allocate_pass(slots, capacity, rz.key, rz.value, rz.new_capacity)
           n == IF rz.attempts < MaxAttemptsCounted THEN rz.attempts + 1
                ELSE rz.attempts
       IN  /\ inner' = p.inner
           /\ capacity' = p.capacity
           /\ slots' = p.slots
           /\ panic' = p.panic
           /\ IF p.outcome = "retry"
              THEN /\ rz' = [rz EXCEPT !.pc = "allocate",
                                       !.new_capacity = greater_capacity(@),
                                       !.attempts = n]
                   /\ mem' = dealloc_candidate(mem)
                   /\ UNCHANGED last
              ELSE /\ rz' = RzIdle(rz.key, rz.value, n)
                   /\ mem' = IF p.outcome = "commit" THEN commit_reallocate(mem)
                             ELSE mem
                   /\ last' = Call("insert", rz.key, rz.value, p.ret)
    /\ BufFrame

BufRemove(key) ==
    /\ panic = NoPanic
    /\ rz.pc = "idle"
    /\ validate_key(key)
    /\ LET r == remove(inner, capacity, slots, key)
       IN  /\ inner' = r.inner
           /\ capacity' = r.capacity
           /\ slots' = r.slots
           /\ panic' = r.panic
           /\ last' = Call("remove", key, NoValue, r.ret)
    /\ UNCHANGED <<rz, mem>>
    /\ BufFrame

NextBuf ==
    \/ \E key \in Keys : BufInsert(key, "a")
    \/ BufAlloc
    \/ BufCopy
    \/ \E key \in Keys : BufRemove(key)

SpecBuffers == InitBuf /\ [][NextBuf]_vars

\* C31: buffer accounting across the retry loop.  At every step of an
\* insert at most two buffers are allocated, the map's and one candidate;
\* a candidate is allocated only when the one before it has been
\* deallocated; the old buffer is deallocated once, at the commit, and
\* not before; and when insert returns, one buffer is allocated, the
\* map's.
C31_BufferAccounting ==
    [][/\ mem'.live <= 2
       /\ mem'.cands <= 1
       /\ BufAlloc => mem.cands = 0 /\ mem.live = 1
       /\ rz'.pc # "idle" => mem'.old_frees = 0
       /\ (rz'.pc = "idle" /\ last'.op = "insert" /\ panic' = NoPanic) =>
              /\ mem'.live = 1
              /\ mem'.cands = 0
              /\ inner' = ALLOCATED
              /\ mem'.old_frees = IF rz.pc = "copy" THEN 1 ELSE 0]_vars

\* C31's case: an insert has returned after giving up two candidates or
\* more and adopting the next.
C31_Witness ==
    /\ rz.pc = "idle"
    /\ rz.attempts >= 3
    /\ last.op = "insert"
    /\ mem.old_frees = 1
    /\ mem.live = 1

(***************************************************************************)
(* C32..C39: the map again, in Spec, SpecResize and SpecOwn.               *)
(***************************************************************************)

\* C32: a successful insert(k, v) preserves every other entry: the live
\* (key, value) pairs after the call are those before the call and (k, v),
\* also when the call went through one reallocation or more.
C32_InsertPreservesOthers ==
    [][\A k \in Keys, v \in Values :
          (Insert(k, v) /\ last'.ret = Ok) =>
              /\ Live(slots') = Live(slots) \cup {<<k, v>>}
              /\ <<k, v>> \notin Live(slots)]_vars

\* C32's case: 0 and 10, with different values, then 20, which the map of
\* capacity 4 takes only at the second candidate, 22.
C32_Witness ==
    /\ run.ok
    /\ DOMAIN run.m = {0, 10, 20}
    /\ run.m[0] # run.m[10]
    /\ last.op = "insert"
    /\ last.key = 20
    /\ last.ret = Ok
    /\ capacity = 22

\* The keys of ks have pairwise distinct residues modulo c.
DistinctResidues(ks, c) ==
    \A k1 \in ks, k2 \in ks : k1 # k2 => k1 % c # k2 % c

\* The first value of the growth chain, from c on, at which the keys of ks
\* have pairwise distinct residues.
RECURSIVE FirstFree(_, _)
FirstFree(c, ks) ==
    IF DistinctResidues(ks, c) THEN c ELSE FirstFree(greater_capacity(c), ks)

\* C33: the capacity adopted by a collision-triggered insert is the first
\* value c of the chain greater_capacity(old), greater_capacity of that,
\* ... at which the live keys and the new key have pairwise distinct
\* residues modulo c; no later value is adopted when an earlier one is
\* free of collisions.
C33_FirstFreeCapacity ==
    [][\A k \in Keys, v \in Values :
          (/\ Insert(k, v)
           /\ inner # NULL
           /\ slots[k % capacity].key \notin {MAX_KEY, k}) =>
              /\ capacity' =
                     FirstFree(greater_capacity(capacity), LiveKeys(slots) \cup {k})
              /\ last'.ret = Ok]_vars

\* C33's case: 0, then 4: the candidate 4 puts both in slot 0, the next
\* one, 10, is adopted.
C33_Witness ==
    /\ run.ok
    /\ DOMAIN run.m = {0, 4}
    /\ last.op = "insert"
    /\ last.key = 4
    /\ last.ret = Ok
    /\ capacity = 10

\* C34: while a resize copies the live entries of the old buffer into a
\* candidate, no re-insertion finds its key there already, so the
\* assertion against a duplicate key fires in no reachable state; and the
\* insert of the triggering key reports the key as existing, returning
\* Err(value), exactly when the key was live before the call.
C34_NoDuplicateWhileCopying ==
    [][/\ panic' # DuplicateWhileCopying
       /\ \A k \in Keys, v \in Values :
              Insert(k, v) =>
                  (last'.ret = Err(v) <=> k \in LiveKeys(slots))]_vars

\* C34's case: an insert under a live key went through the copy of three
\* entries or more and was told at the last step that its key exists.
C34_Witness ==
    /\ last.op = "insert"
    /\ last.ret = Err(last.value)
    /\ capacity >= 22
    /\ Cardinality(LiveKeys(slots)) >= 3
    /\ panic = NoPanic

Iterating == iter.kind \in {"iter", "iter_mut", "drain", "into_iter"}

\* The slot of the n-th entry yielded, in the buffer the sequence was
\* started on.
SeenSlot(n) == own.seen[n][1] % own.snap.capacity

\* C35: iter, iter_mut, drain and into_iter yield the entries in ascending
\* order of slot index, key mod capacity, whatever the order of the
\* inserts: what has been yielded so far is the entries of the slots the
\* scan has passed, none skipped but the vacant ones, and the sequence ends
\* when the whole capacity range has been scanned.
C35_IterationInSlotOrder ==
    Iterating =>
        /\ \A n \in 1 .. Len(own.seen) - 1 : SeenSlot(n) < SeenSlot(n + 1)
        /\ PairsOf(own.seen) =
               {p \in own.snap.pairs : p[1] % own.snap.capacity < iter.ptr}
        /\ Len(own.seen) = Cardinality(PairsOf(own.seen))
        /\ (last.op \in {"iter.next", "drain.next", "into_iter.next"}
               /\ last.ret = None) => iter.ptr = capacity

\* C35's case: the keys 4, 1, 0 were inserted in this order and a sequence
\* has yielded 0, then 1, then 4.
C35_Witness ==
    /\ Iterating
    /\ Len(own.seen) = 3
    /\ own.seen[1] = <<0, Token(3)>>
    /\ own.seen[2] = <<1, Token(2)>>
    /\ own.seen[3] = <<4, Token(1)>>

DrainDropped == OwnIterDrop /\ iter.kind = "drain"

\* C36: dropping a drain sequence before its end destroys no value at that
\* moment: the entries yielded are the caller's, the others stay live in
\* the map; no value is leaked or destroyed twice, and each of those left
\* in the map is destroyed once, when the map is dropped or cleared.
C36_DroppedDrainOwnership ==
    [][/\ DrainDropped =>
              /\ own'.drops = own.drops
              /\ own'.held = own.held
              /\ Live(slots') = own.snap.pairs \ PairsOf(own.seen)
              /\ \A n \in 1 .. Len(own.seen) :
                     own.seen[n][2] \notin LiveValues(slots', capacity', 0)
       /\ OwnedOnce'
       /\ (OwnMapDrop \/ OwnClear) =>
              /\ \A t \in LiveValues(slots, capacity, 0) :
                     own.drops[t] = 0 /\ own'.drops[t] = 1
              /\ \A t \in Tokens \ LiveValues(slots, capacity, 0) :
                     own'.drops[t] = own.drops[t]]_vars

\* C36's case: a drain was dropped after it yielded a value the caller
\* still has, with another entry left in the map and nothing destroyed.
C36_Witness ==
    /\ last.op = "drain.drop"
    /\ last.ret.tag = "Some"
    /\ last.ret.v \in own.held
    /\ LiveValues(slots, capacity, 0) # {}
    /\ \A t \in Tokens : own.drops[t] = 0

\* C37: no teardown path deallocates a buffer that was never allocated:
\* the drop of a map that never allocated, and the drop of the consuming
\* iterator such a map was turned into, call dealloc not at all.
C37_NoDeallocOfNull ==
    /\ own.nullfrees = 0
    /\ (inner = NULL /\ (own.map = "dropped" \/ iter.kind = "gone")) =>
           own.frees = 0

(***************************************************************************)
(* Writes through the references of get_mut and iter_mut.  SpecMut lets    *)
(* the caller change the value a reference points to, as the test          *)
(* test_number_key_map_iter_mut does with v.0 *= 2, and remembers in       *)
(* mem.written, for every live key, the last value written that way.       *)
(***************************************************************************)

\* A mutant of write_through: the reference is to a copy of the value.
write_through_copy(sl, idx, value) == sl

\* An assignment through &mut slot.value, the slot being that of index idx.
write_through(sl, idx, value) == [sl EXCEPT ![idx].value = value]

NothingWritten == [k \in OwnKeys |-> NoValue]

\* What is remembered of the writes once the map is sl: of live keys only.
WrittenIn(written, sl) ==
    [k \in OwnKeys |-> IF k \in LiveKeys(sl) THEN written[k] ELSE NoValue]

InitMut ==
    /\ inner = NULL
    /\ capacity = 0
    /\ slots = <<>>
    /\ iter = NoIter
    /\ panic = NoPanic
    /\ rz = Unused
    /\ own = Unused
    /\ rd = Unused
    /\ pool = Unused
    /\ mem = [written |-> NothingWritten]
    /\ vq = Unused
    /\ aq = Unused
    /\ clk = Unused
    /\ grow = Unused
    /\ last = Call("new", MAX_KEY, NoValue, None)
    /\ run = NoRun

MutFrame == UNCHANGED <<run, rz, own, rd, pool, vq, aq, clk, grow>>

MutInsert(key, value) ==
    /\ panic = NoPanic
    /\ iter.kind = "none"
    /\ validate_key(key)
    /\ LET r == insert(inner, capacity, slots, key, value)
       IN  /\ r.capacity <= MaxCapacity
           /\ inner' = r.inner
           /\ capacity' = r.capacity
           /\ slots' = r.slots
           /\ panic' = r.panic
           /\ last' = Call("insert", key, value, r.ret)
           /\ mem' = [written |-> WrittenIn(mem.written, r.slots)]
    /\ UNCHANGED iter
    /\ MutFrame

MutRemove(key) ==
    /\ panic = NoPanic
    /\ iter.kind = "none"
    /\ validate_key(key)
    /\ LET r == remove(inner, capacity, slots, key)
       IN  /\ inner' = r.inner
           /\ capacity' = r.capacity
           /\ slots' = r.slots
           /\ panic' = r.panic
           /\ last' = Call("remove", key, NoValue, r.ret)
           /\ mem' = [written |-> WrittenIn(mem.written, r.slots)]
    /\ UNCHANGED iter
    /\ MutFrame

MutGet(key) ==
    /\ panic = NoPanic
    /\ iter.kind = "none"
    /\ validate_key(key)
    /\ last' = Call("get", key, NoValue, get(inner, capacity, slots, key))
    /\ UNCHANGED <<inner, capacity, slots, iter, panic, mem>>
    /\ MutFrame

\* if let Some(v) = map.get_mut(key) { *v = value }
MutGetMut(key, value) ==
    /\ panic = NoPanic
    /\ iter.kind = "none"
    /\ validate_key(key)
    /\ LET r == get_mut(inner, capacity, slots, key)
       IN  /\ last' = Call("get_mut", key, value, r)
           /\ IF r.tag = "Some"
              THEN /\ slots' = write_through(slots,
                                   get_started_slot_idx_for_key(key, capacity),
                                   value)
                   /\ mem' = [written |-> [mem.written EXCEPT ![key] = value]]
              ELSE UNCHANGED <<slots, mem>>
    /\ UNCHANGED <<inner, capacity, iter, panic>>
    /\ MutFrame

MutIter(kind) ==
    /\ panic = NoPanic
    /\ iter.kind = "none"
    /\ iter' = [kind |-> kind, ptr |-> 0]
    /\ last' = Call(kind, MAX_KEY, NoValue, None)
    /\ UNCHANGED <<inner, capacity, slots, panic, mem>>
    /\ MutFrame

MutIterNext ==
    /\ panic = NoPanic
    /\ iter.kind = "iter"
    /\ LET r == iter_next(slots, capacity, iter.ptr)
       IN  /\ iter' = [iter EXCEPT !.ptr = r.ptr]
           /\ slots' = r.slots
           /\ last' = Call("iter.next", r.key, NoValue, r.ret)
    /\ UNCHANGED <<inner, capacity, panic, mem>>
    /\ MutFrame

\* if let Some((_, v)) = it.next() { *v = value }, it being iter_mut().
MutIterMutNext(value) ==
    /\ panic = NoPanic
    /\ iter.kind = "iter_mut"
    /\ LET r == iter_mut_next(slots, capacity, iter.ptr)
       IN  /\ iter' = [iter EXCEPT !.ptr = r.ptr]
           /\ last' = Call("iter_mut.next", r.key, value, r.ret)
           /\ IF r.ret.tag = "Some"
              THEN /\ slots' = write_through(r.slots, r.ptr - 1, value)
                   /\ mem' = [written |-> [mem.written EXCEPT ![r.key] = value]]
              ELSE /\ slots' = r.slots
                   /\ UNCHANGED mem
    /\ UNCHANGED <<inner, capacity, panic>>
    /\ MutFrame

MutIterDrop ==
    /\ panic = NoPanic
    /\ iter.kind \in {"iter", "iter_mut"}
    /\ iter' = NoIter
    /\ slots' = iter_drop(slots, capacity, iter)
    /\ last' = Call("iter.drop", MAX_KEY, NoValue, None)
    /\ UNCHANGED <<inner, capacity, panic, mem>>
    /\ MutFrame

NextMut ==
    \/ \E key \in OwnKeys, value \in Values : MutInsert(key, value)
    \/ \E key \in OwnKeys : MutRemove(key)
    \/ \E key \in OwnKeys : MutGet(key)
    \/ \E key \in OwnKeys, value \in Values : MutGetMut(key, value)
    \/ \E kind \in {"iter", "iter_mut"} : MutIter(kind)
    \/ MutIterNext
    \/ \E value \in Values : MutIterMutNext(value)
    \/ MutIterDrop

SpecMut == InitMut /\ [][NextMut]_vars

\* A step that writes through a reference of get_mut or iter_mut.
WritesThrough ==
    \/ \E key \in OwnKeys, value \in Values : MutGetMut(key, value)
    \/ \E value \in Values : MutIterMutNext(value)

\* C38: a value changed through the reference of get_mut(k), or through one
\* iter_mut yields, is the value get(k) and iter return afterwards; the
\* change alters no key, no slot's occupancy and no capacity, and no other
\* value.
C38_WriteThroughReference ==
    [][/\ WritesThrough =>
              /\ inner' = inner
              /\ capacity' = capacity
              /\ DOMAIN slots' = DOMAIN slots
              /\ \A idx \in DOMAIN slots : slots'[idx].key = slots[idx].key
              /\ \A k \in OwnKeys :
                     k # last'.key => GetNext(k) = GetNow(k)
              /\ last'.ret.tag = "Some" => GetNext(last'.key) = Some(last'.value)
       /\ (/\ last'.op \in {"get", "iter.next"}
           /\ last'.ret.tag = "Some"
           /\ mem'.written[last'.key] # NoValue) =>
              last'.ret.v = mem'.written[last'.key]]_vars

\* C38's case: iter yields, for a key that was inserted with another value,
\* the value written through a reference, on a map that has grown and
\* holds a second value written through a reference.
C38_Witness ==
    /\ last.op = "iter.next"
    /\ last.ret.tag = "Some"
    /\ mem.written[last.key] = last.ret.v
    /\ capacity >= 4
    /\ \E k \in OwnKeys : k # last.key /\ mem.written[k] \notin {NoValue, last.ret.v}

\* ------------------------------------------------------------------------
\* Slot accesses: the buffer, the capacity of that buffer and the index of
\* every slot a call reads or writes.
\* ------------------------------------------------------------------------

NullAtGetSlotPtr == "NumberKeyMap is allocated at get_slot_ptr"

IdxOutOfBounds == "idx is out of bounds at get_slot_ptr"

\* get_slot_ptr: the two assert_hint calls in their order, then inner.add(idx).
get_slot_ptr(in, cap, idx) ==
    IF in = NULL THEN NullAtGetSlotPtr
    ELSE IF ~(idx < cap) THEN IdxOutOfBounds
    ELSE NoPanic

SlotAccess(in, cap, idx) == [inner |-> in, capacity |-> cap, idx |-> idx]

\* A mutant of the loop that presets the candidate: its range is inclusive.
preset_accesses_inclusive(new_inner, new_capacity) ==
    {SlotAccess(new_inner, new_capacity, i) : i \in 0 .. new_capacity}

\* `for i in 0..new_capacity { new_inner.add(i).write(...) }` of slow_insert.
preset_accesses(new_inner, new_capacity) ==
    {SlotAccess(new_inner, new_capacity, i) : i \in 0 .. (new_capacity - 1)}

\* get and get_mut: nothing is touched on a null buffer, else the slot of key.
get_accesses(in, cap, key) ==
    IF in = NULL THEN {}
    ELSE {SlotAccess(in, cap, get_started_slot_idx_for_key(key, cap))}

\* insert_or_fail on the buffer it is given.
insert_or_fail_accesses(in, cap, key) ==
    {SlotAccess(in, cap, get_started_slot_idx_for_key(key, cap))}

\* remove: `key % self.capacity` panics on capacity 0 before any slot is
\* taken; there is no null check before get_slot_mut.
remove_accesses(in, cap, key) ==
    IF cap = 0 THEN {}
    ELSE {SlotAccess(in, cap, get_started_slot_idx_for_key(key, cap))}

\* clear_with: nothing on a null buffer, else every slot of the buffer.
clear_accesses(in, cap) ==
    IF in = NULL THEN {}
    ELSE {SlotAccess(in, cap, i) : i \in 0 .. (cap - 1)}

\* next() of Iter and of Drain: the slots from ptr up to the one yielded.
next_accesses(in, cap, sl, ptr) ==
    LET at == scan(sl, ptr, cap)
    IN  {SlotAccess(in, cap, i) : i \in {j \in ptr .. at : j < cap}}

\* One pass of the loop of slow_insert run to its end: the candidate is
\* preset, each slot of the map is read, each live entry and then the new
\* key is inserted into the candidate.  A pass that stops at a collision
\* touches a part of these.
pass_accesses(in, old, oldcap, key, new_capacity) ==
    preset_accesses(ALLOCATED, new_capacity)
      \cup {SlotAccess(in, oldcap, idx) : idx \in 0 .. (oldcap - 1)}
      \cup UNION {insert_or_fail_accesses(ALLOCATED, new_capacity, old[idx].key) :
                    idx \in {j \in 0 .. (oldcap - 1) : old[j].key # MAX_KEY}}
      \cup insert_or_fail_accesses(ALLOCATED, new_capacity, key)

RECURSIVE loop_accesses(_, _, _, _, _, _)
loop_accesses(in, old, oldcap, key, value, new_capacity) ==
    pass_accesses(in, old, oldcap, key, new_capacity)
      \cup IF allocate_pass(old, oldcap, key, value, new_capacity).outcome = "retry"
           THEN loop_accesses(in, old, oldcap, key, value,
                              greater_capacity(new_capacity))
           ELSE {}

\* insert: insert_first writes slot 0 of a buffer of one slot; otherwise
\* insert_or_fail on the map and, when it finds no room, slow_insert.
insert_accesses(in, cap, sl, key, value) ==
    IF in = NULL THEN {SlotAccess(ALLOCATED, 1, 0)}
    ELSE insert_or_fail_accesses(in, cap, key)
           \cup IF insert_or_fail(sl, cap, key, value).res = "NotEnoughSpace"
                THEN loop_accesses(in, sl, cap, key, value, greater_capacity(cap))
                ELSE {}

\* The slots touched by the call that last describes, made in a map
\* (in, cap, sl) with an iterator at ptr.
call_accesses(c, in, cap, sl, ptr) ==
    IF ~validate_key(c.key) /\ c.op \in KeyOps THEN {}
    ELSE IF c.op \in {"get", "get_mut"} THEN get_accesses(in, cap, c.key)
    ELSE IF c.op = "insert" THEN insert_accesses(in, cap, sl, c.key, c.value)
    ELSE IF c.op = "remove" THEN remove_accesses(in, cap, c.key)
    ELSE IF c.op = "clear" THEN clear_accesses(in, cap)
    ELSE IF c.op \in {"iter.next", "drain.next"} THEN next_accesses(in, cap, sl, ptr)
    ELSE {}

SafeAccess(a) == get_slot_ptr(a.inner, a.capacity, a.idx) = NoPanic

DEFAULT_CAPACITY == 16

ExtendArgs == {0, 3, 4, 8}

UsizeAddOverflow == "attempt to add with overflow"

\* VecQueue::new(): an allocated, empty buffer of DEFAULT_CAPACITY slots.
vq_new ==
    [ptr |-> ALLOCATED, head |-> 0, tail |-> 0, capacity |-> DEFAULT_CAPACITY,
     mask |-> get_mask_for_capacity(DEFAULT_CAPACITY),
     buf |-> vq_allocate(DEFAULT_CAPACITY)]

\* `for i in 0..self.len()` of clone, from i on: the element at head + i is
\* cloned and pushed.  head + i is a plain addition: with overflow checks it
\* panics past the word's end, without them it wraps.
RECURSIVE clone_elements(_, _, _, _)
clone_elements(build, q, new, i) ==
    IF i >= vq_len(q) THEN [q |-> new, panic |-> NoPanic]
    ELSE IF build = "overflow-checks" /\ q.head + i >= WordMod
    THEN [q |-> new, panic |-> UsizeAddOverflow]
    ELSE LET elem == q.buf[vq_get_physical_index(q, wrapping_add(q.head, i))]
             r == vq_push(new, elem)
         IN  IF r.panic # NoPanic THEN r
             ELSE clone_elements(build, q, r.q, i + 1)

\* Clone for VecQueue: new(), extend_to(new.capacity), then the pushes.
vq_clone(build, q) ==
    LET new == vq_new
        r == extend_to(new, new.capacity)
    IN  IF r.panic # NoPanic THEN r
        ELSE clone_elements(build, q, r.q, 0)

CloneFrame ==
    UNCHANGED <<inner, capacity, slots, iter, panic, last, run,
                rz, own, rd, pool, aq, clk, grow>>

InitClone ==
    /\ inner = NULL
    /\ capacity = 0
    /\ slots = <<>>
    /\ iter = NoIter
    /\ panic = NoPanic
    /\ rz = Unused
    /\ own = Unused
    /\ rd = Unused
    /\ pool = Unused
    /\ mem = [arg |-> 0, clone |-> new_const]
    /\ \E start \in {0, WordMod - 2} :
           vq = [q |-> IF start = 0 THEN new_const
                       ELSE [ptr |-> ALLOCATED, head |-> start, tail |-> start,
                             capacity |-> 4, mask |-> 3, buf |-> vq_allocate(4)],
                 start |-> start, pc |-> "idle", op |-> "new", ret |-> None,
                 panic |-> NoPanic, needed |-> 0, new_capacity |-> 0,
                 before |-> <<>>]
    /\ aq = Unused
    /\ clk = Unused
    /\ grow = Unused
    /\ last = Call("new", MAX_KEY, NoValue, None)
    /\ run = NoRun

\* q.clone(): the panic of the call, if any, ends the program.
VqClone(build) ==
    /\ VqCanCall
    /\ LET r == vq_clone(build, vq.q)
       IN  /\ vq' = [vq EXCEPT !.op = "clone", !.panic = r.panic,
                               !.ret = None, !.needed = 0, !.before = <<>>,
                               !.new_capacity = 0]
           /\ mem' = [mem EXCEPT !.clone = r.q]
    /\ CloneFrame

\* q.extend_to(cap), called from outside.
VqExtendTo(cap) ==
    /\ VqCanCall
    /\ LET r == extend_to(vq.q, cap)
       IN  vq' = [vq EXCEPT !.q = r.q, !.op = "extend_to", !.panic = r.panic,
                            !.ret = None, !.needed = 0, !.before = <<>>,
                            !.new_capacity = 0]
    /\ mem' = [mem EXCEPT !.arg = cap]
    /\ CloneFrame

NextClone ==
    \/ \E value \in Values : VqPush(value)
    \/ \E value \in Values : VqPushPriorityValue(value)
    \/ VqPop
    \/ VqPopLessPriorityValue
    \/ \E build \in Builds : VqClone(build)
    \/ \E cap \in ExtendArgs : VqExtendTo(cap)

SpecClone == InitClone /\ [][NextClone]_vars

\* C40: clone returns without a panic a queue with the elements of the
\* original in the same order, front to back, and the original is as it
\* was; extend_to panics only when the capacity asked for is not a power of
\* two or is less than the current capacity.
C40_CloneAndExtendTo ==
    [][/\ vq'.op = "clone" =>
              /\ vq'.panic = NoPanic
              /\ Content(mem'.clone) = Content(vq.q)
              /\ vq'.q = vq.q
       /\ (vq'.op = "extend_to" /\ vq'.panic # NoPanic) =>
              \/ ~is_power_of_two(mem'.arg)
              \/ mem'.arg < vq.q.capacity]_vars

====
